---- MODULE Spec2Model ----
(***************************************************************************)
(* Flux Rounds: the round-based card game engine (game/rules.ts,           *)
(* game/deck.ts, game/validator.ts, game/state.ts) driven by the handlers  *)
(* of components/GameView.tsx.  The GameState object is the record held by *)
(* the variable `state`; every handler is one action.                      *)
(*                                                                         *)
(* Arrays are 0-based in the source and 1-based here: drawPile[0] is       *)
(* Head(drawPile), the top of the discard pile is its last element, and    *)
(* currentPlayerIndex keeps its 0-based value (player i is players[i+1]).  *)
(* An optional field (x?: T) is << >> when undefined and <<v>> when set.   *)
(* The message field is display text and is left out.                      *)
(***************************************************************************)
EXTENDS Integers, Sequences, FiniteSets, TLC

(***************************************************************************)
(* Bounds of the model.                                                    *)
(***************************************************************************)
\* the numbers of player names newGame is given
PlayerCounts == {2, 3, 4}
\* how many of the five suits the model deck uses
NumSuits == 2
\* how many of the ranks 3..13 the model deck uses (ranks 3..NumRanks+2)
NumRanks == 3
\* jokers per deck copy in the model deck
NumJokers == 1
\* rounds of a game in the model (totalRounds)
NumRounds == 2
\* discards the model follows in one game
MaxTurns == 2
\* RNG streams the shuffles draw from
NumStreams == 2

(***************************************************************************)
(* game/rules.ts                                                           *)
(***************************************************************************)
AllSuits == <<"STARS", "HEARTS", "CLUBS", "SPADES", "DIAMONDS">>

Decks == 2
JokerPenalty == 50
WildPenalty == 20

FiveCrownsCompat ==
    [ suits         |-> SubSeq(AllSuits, 1, NumSuits),
      ranks         |-> [i \in 1..NumRanks |-> i + 2],
      decks         |-> Decks,
      jokersPerDeck |-> NumJokers,
      totalRounds   |-> NumRounds,
      jokerPenalty  |-> JokerPenalty,
      wildPenalty   |-> WildPenalty ]

\* the value of a call that throws
Throws == [error |-> "throws"]

\* a range check that lets round 0 through
getRoundRule_AcceptsZero(round) ==
    IF round < 0 \/ round > FiveCrownsCompat.totalRounds
    THEN Throws
    ELSE [round |-> round, handSize |-> round + 2, wildRank |-> round + 2]

getRoundRule(round) ==
    IF round < 1 \/ round > FiveCrownsCompat.totalRounds
    THEN Throws
    ELSE [round |-> round, handSize |-> round + 2, wildRank |-> round + 2]

isJoker(rank) == rank = 0

isWildRank(rank, rule) == isJoker(rank) \/ rank = rule.wildRank

\* a scoreHand that counts the round's wild cards at face value
RECURSIVE scoreHand_WildFaceValue(_, _)
scoreHand_WildFaceValue(ranks, rule) ==
    IF ranks = << >> THEN 0
    ELSE LET r == Head(ranks)
         IN  (IF r = 0 THEN FiveCrownsCompat.jokerPenalty ELSE r)
             + scoreHand_WildFaceValue(Tail(ranks), rule)

RECURSIVE scoreHand(_, _)
scoreHand(ranks, rule) ==
    IF ranks = << >> THEN 0
    ELSE LET r == Head(ranks)
         IN  (IF r = 0 THEN FiveCrownsCompat.jokerPenalty
              ELSE IF r = rule.wildRank THEN FiveCrownsCompat.wildPenalty
              ELSE r)
             + scoreHand(Tail(ranks), rule)

(***************************************************************************)
(* game/deck.ts                                                            *)
(***************************************************************************)
\* the cards createDecks pushes for deck copy d, given the n cards pushed so far
RECURSIVE SuitedCards(_, _, _, _, _)
SuitedCards(d, suits, ranks, si, n) ==
    IF si > Len(suits) THEN << >>
    ELSE [ri \in 1..Len(ranks) |->
            [ id        |-> <<d, suits[si], ranks[ri], n + ri - 1>>,
              suit      |-> suits[si],
              rank      |-> ranks[ri],
              deckIndex |-> d ]]
         \o SuitedCards(d, suits, ranks, si + 1, n + Len(ranks))

\* jokers that all take the id made from the length before the first of them
JokerCards_SameId(d, jokersPerDeck, n) ==
    [j \in 1..jokersPerDeck |->
        [ id        |-> <<d, "JOKER", 0, n>>,
          suit      |-> "STARS",
          rank      |-> 0,
          deckIndex |-> d ]]

JokerCards(d, jokersPerDeck, n) ==
    [j \in 1..jokersPerDeck |->
        [ id        |-> <<d, "JOKER", 0, n + j - 1>>,
          suit      |-> "STARS",
          rank      |-> 0,
          deckIndex |-> d ]]

RECURSIVE createDecksFrom(_, _, _)
createDecksFrom(params, d, out) ==
    IF d > params.decks THEN out
    ELSE LET suited == SuitedCards(d, params.suits, params.ranks, 1, Len(out))
             jokers == JokerCards(d, params.jokersPerDeck, Len(out) + Len(suited))
         IN  createDecksFrom(params, d + 1, out \o suited \o jokers)

createDecks(params) == createDecksFrom(params, 1, << >>)

\* A 32-bit word is the pair <<high half, low half>> of its 16-bit halves.
W16 == 2^16

\* bit by bit over the n low bits of a and b: ^ and |
RECURSIVE xorBits(_, _, _)
xorBits(a, b, n) ==
    IF n = 0 THEN 0
    ELSE (((a % 2) + (b % 2)) % 2) + 2 * xorBits(a \div 2, b \div 2, n - 1)

RECURSIVE orBits(_, _, _)
orBits(a, b, n) ==
    IF n = 0 THEN 0
    ELSE (IF (a % 2) + (b % 2) > 0 THEN 1 ELSE 0) + 2 * orBits(a \div 2, b \div 2, n - 1)

xor32(a, b) == <<xorBits(a[1], b[1], 16), xorBits(a[2], b[2], 16)>>

or32(a, b) == <<orBits(a[1], b[1], 16), orBits(a[2], b[2], 16)>>

\* a >>> s for 0 < s < 16
ushr(a, s) == <<a[1] \div (2^s), (a[2] \div (2^s)) + (a[1] % (2^s)) * (2^(16 - s))>>

\* the sum of two words as the bitwise operators see it: modulo 2^32
add32(a, b) ==
    LET lo == a[2] + b[2]
    IN  <<(a[1] + b[1] + (lo \div W16)) % W16, lo % W16>>

\* the low 16 bits of the product of two 16-bit halves
mulLow16(a, b) == ((a % 256) * b + 256 * (((a \div 256) * (b % 256)) % 256)) % W16

\* Math.imul: the low 32 bits of the product
imul(a, b) ==
    LET u     == (a[2] \div 256) * b[2]
        v     == (a[2] % 256) * b[2]
        low   == (u % 256) * 256 + v
        cross == mulLow16(a[1], b[2]) + mulLow16(a[2], b[1])
    IN  <<((u \div 256) + (low \div W16) + cross) % W16, low % W16>>

\* 0x6D2B79F5
Increment == <<27947, 31221>>

\* a call that multiplies by 1 | (t ^ (t >>> 15)) instead of 1 | t
mulberry32Call_OrAfterXor(t) ==
    LET lo == t[2] + Increment[2]
        t1 == <<t[1] + Increment[1] + (lo \div W16), lo % W16>>
        u  == <<t1[1] % W16, t1[2]>>
        y  == xor32(u, ushr(u, 15))
        x1 == imul(y, or32(<<0, 1>>, y))
        x2 == xor32(x1, add32(x1, imul(xor32(x1, ushr(x1, 7)), or32(<<0, 61>>, x1))))
    IN  [t |-> t1, value |-> xor32(x2, ushr(x2, 14))]

\* one call of the function mulberry32 returns.  t is a number that is never
\* cut to 32 bits (t += 0x6D2B79F5), so its high part grows; the bitwise
\* operators read it modulo 2^32.  value is the numerator of the returned
\* value over 4294967296.
mulberry32Call(t) ==
    LET lo == t[2] + Increment[2]
        t1 == <<t[1] + Increment[1] + (lo \div W16), lo % W16>>
        u  == <<t1[1] % W16, t1[2]>>
        x1 == imul(xor32(u, ushr(u, 15)), or32(<<0, 1>>, u))
        x2 == xor32(x1, add32(x1, imul(xor32(x1, ushr(x1, 7)), or32(<<0, 61>>, x1))))
    IN  [t |-> t1, value |-> xor32(x2, ushr(x2, 14))]

\* mulberry32(seed): the state and the value of its k-th call (k >= 1)
RECURSIVE mulberry32(_, _)
mulberry32(seed, k) ==
    IF k = 1 THEN mulberry32Call(seed)
    ELSE mulberry32Call(mulberry32(seed, k - 1).t)

\* An Rng is modelled by the stream of values it returns: the k-th call
\* returns rs[k] / RngDenom, a number in [0, 1).
RngDenom == 16
MaxRngCalls == Decks * (5 * 11 + 3)

RngStream(seed) ==
    [k \in 1..MaxRngCalls |-> (seed * (3 * k + 1) + 5 * k * k + 7 * seed * seed) % RngDenom]

RngStreams == { RngStream(seed) : seed \in 1..NumStreams }

Swap(a, i, j) == [a EXCEPT ![i] = a[j], ![j] = a[i]]

\* a loop that draws every j from the whole array: floor(rng() * a.length)
RECURSIVE shuffleLoop_WholeRange(_, _, _, _)
shuffleLoop_WholeRange(a, i, rs, k) ==
    IF i <= 0 THEN a
    ELSE LET j == (rs[k] * Len(a)) \div RngDenom
         IN  shuffleLoop_WholeRange(Swap(a, i + 1, j + 1), i - 1, rs, k + 1)

\* the loop of shuffle: i is the 0-based loop index, k the number of the rng call
RECURSIVE shuffleLoop(_, _, _, _)
shuffleLoop(a, i, rs, k) ==
    IF i <= 0 THEN a
    ELSE LET j == (rs[k] * (i + 1)) \div RngDenom
         IN  shuffleLoop(Swap(a, i + 1, j + 1), i - 1, rs, k + 1)

shuffle(arr, rs) == shuffleLoop(arr, Len(arr) - 1, rs, 1)

\* a deal that gives every player a block of consecutive cards
deal_Blockwise(deck, playerCount, handSize, startDiscard) ==
    LET hands     == [p \in 1..playerCount |->
                        [c \in 1..handSize |-> deck[(p - 1) * handSize + c]]]
        index     == handSize * playerCount
        remaining == SubSeq(deck, index + 1, Len(deck))
    IN  IF startDiscard /\ Len(remaining) > 0
        THEN [hands |-> hands, drawPile |-> Tail(remaining), discardPile |-> <<Head(remaining)>>]
        ELSE [hands |-> hands, drawPile |-> remaining, discardPile |-> << >>]

deal(deck, playerCount, handSize, startDiscard) ==
    LET hands     == [p \in 1..playerCount |->
                        [c \in 1..handSize |-> deck[(c - 1) * playerCount + p]]]
        index     == handSize * playerCount
        remaining == SubSeq(deck, index + 1, Len(deck))
    IN  IF startDiscard /\ Len(remaining) > 0
        THEN [hands |-> hands, drawPile |-> Tail(remaining), discardPile |-> <<Head(remaining)>>]
        ELSE [hands |-> hands, drawPile |-> remaining, discardPile |-> << >>]

drawOne(drawPile) ==
    IF Len(drawPile) = 0 THEN Throws
    ELSE [card |-> Head(drawPile), drawPile |-> Tail(drawPile)]

takeDiscardTop(discardPile) ==
    IF Len(discardPile) = 0 THEN Throws
    ELSE [card |-> discardPile[Len(discardPile)],
          discardPile |-> SubSeq(discardPile, 1, Len(discardPile) - 1)]

\* a discard that replaces the pile by the discarded card
discardOne_ReplacesPile(discardPile, card) == <<card>>

discardOne(discardPile, card) == Append(discardPile, card)

\* a recycle that shuffles the whole discard pile, its top card included
recycleDiscardIntoDraw_KeepsTopTwice(drawPile, discardPile, rs) ==
    IF Len(drawPile) > 0 THEN [drawPile |-> drawPile, discardPile |-> discardPile]
    ELSE IF Len(discardPile) <= 1 THEN [drawPile |-> drawPile, discardPile |-> discardPile]
    ELSE [drawPile |-> shuffle(discardPile, rs), discardPile |-> <<discardPile[Len(discardPile)]>>]

\* a recycle that keeps the bottom card of the discard pile instead of the top
recycleDiscardIntoDraw_KeepsBottom(drawPile, discardPile, rs) ==
    IF Len(drawPile) > 0 THEN [drawPile |-> drawPile, discardPile |-> discardPile]
    ELSE IF Len(discardPile) <= 1 THEN [drawPile |-> drawPile, discardPile |-> discardPile]
    ELSE LET top  == discardPile[1]
             rest == SubSeq(discardPile, 2, Len(discardPile))
         IN  [drawPile |-> shuffle(rest, rs), discardPile |-> <<top>>]

recycleDiscardIntoDraw(drawPile, discardPile, rs) ==
    IF Len(drawPile) > 0 THEN [drawPile |-> drawPile, discardPile |-> discardPile]
    ELSE IF Len(discardPile) <= 1 THEN [drawPile |-> drawPile, discardPile |-> discardPile]
    ELSE LET top  == discardPile[Len(discardPile)]
             rest == SubSeq(discardPile, 1, Len(discardPile) - 1)
         IN  [drawPile |-> shuffle(rest, rs), discardPile |-> <<top>>]

(***************************************************************************)
(* game/validator.ts                                                       *)
(***************************************************************************)
RECURSIVE Insert(_, _)
Insert(x, sorted) ==
    IF sorted = << >> THEN <<x>>
    ELSE IF x < Head(sorted) THEN <<x>> \o sorted
    ELSE <<Head(sorted)>> \o Insert(x, Tail(sorted))

\* Array.prototype.sort((a, b) => a - b) on numbers
RECURSIVE SortAsc(_)
SortAsc(seq) == IF seq = << >> THEN << >> ELSE Insert(Head(seq), SortAsc(Tail(seq)))

RECURSIVE SumGaps(_, _)
SumGaps(ranks, i) ==
    IF i > Len(ranks) THEN 0 ELSE (ranks[i] - ranks[i - 1] - 1) + SumGaps(ranks, i + 1)

\* a book check that takes its target rank from the first card, wild or not
validateBook_TargetFirstCard(cards, rule) ==
    LET nonWild == SelectSeq(cards, LAMBDA c : ~isWildRank(c.rank, rule))
    IN  IF Len(nonWild) = 0 THEN TRUE
        ELSE \A i \in 1..Len(nonWild) : nonWild[i].rank = cards[1].rank

validateBook(cards, rule) ==
    LET nonWild == SelectSeq(cards, LAMBDA c : ~isWildRank(c.rank, rule))
    IN  IF Len(nonWild) = 0 THEN TRUE
        ELSE \A i \in 1..Len(nonWild) : nonWild[i].rank = nonWild[1].rank

\* a run check that asks of every gap alone whether the wilds can fill it
validateRun_EachGapAlone(cards, rule) ==
    LET nonWild    == SelectSeq(cards, LAMBDA c : ~isWildRank(c.rank, rule))
        ranks      == SortAsc([i \in 1..Len(nonWild) |-> nonWild[i].rank])
        wildCount  == Len(cards) - Len(nonWild)
    IN  IF Len(nonWild) = 0 THEN TRUE
        ELSE IF \E i \in 1..Len(nonWild) : nonWild[i].suit # nonWild[1].suit THEN FALSE
        ELSE IF \E i \in 2..Len(ranks) : ranks[i] = ranks[i - 1] THEN FALSE
        ELSE IF \E i \in 2..Len(ranks) : ranks[i] - ranks[i - 1] - 1 < 0 THEN FALSE
        ELSE \A i \in 2..Len(ranks) : ranks[i] - ranks[i - 1] - 1 <= wildCount

validateRun(cards, rule) ==
    LET nonWild    == SelectSeq(cards, LAMBDA c : ~isWildRank(c.rank, rule))
        ranks      == SortAsc([i \in 1..Len(nonWild) |-> nonWild[i].rank])
        wildCount  == Len(cards) - Len(nonWild)
    IN  IF Len(nonWild) = 0 THEN TRUE
        ELSE IF \E i \in 1..Len(nonWild) : nonWild[i].suit # nonWild[1].suit THEN FALSE
        ELSE IF \E i \in 2..Len(ranks) : ranks[i] = ranks[i - 1] THEN FALSE
        ELSE IF \E i \in 2..Len(ranks) : ranks[i] - ranks[i - 1] - 1 < 0 THEN FALSE
        ELSE SumGaps(ranks, 2) <= wildCount

\* the ok flag of the ValidationResult
validateMeld(cards, type, rule) ==
    IF Len(cards) < 3 THEN FALSE
    ELSE IF type = "BOOK" THEN validateBook(cards, rule)
    ELSE validateRun(cards, rule)

\* a lay-off check that validates the added cards without the meld
validateLayoff_AddedAlone(meldType, meldCards, addedCards, rule) ==
    IF Len(addedCards) = 0 THEN FALSE
    ELSE validateMeld(addedCards, meldType, rule)

validateLayoff(meldType, meldCards, addedCards, rule) ==
    IF Len(addedCards) = 0 THEN FALSE
    ELSE validateMeld(meldCards \o addedCards, meldType, rule)

(***************************************************************************)
(* game/state.ts                                                           *)
(***************************************************************************)
VARIABLES
    state,   \* the GameState held by App's useState
    last,    \* the handler that committed the last change of the game
    turns,   \* discards committed so far
    clock,   \* the value Date.now() returns next
    call     \* a call of a rules or validator function: its arguments and result

vars == <<state, last, turns, clock, call>>

\* no function has been called
Idle == [fn |-> "none"]

Undefined == << >>
Some(v) == <<v>>

\* `P${i + 1}` for the 0-based player position i
PlayerId(i) == <<"P", i + 1>>

\* the names App passes (and newGame's default): "Player 1", "Player 2", ...
PlayerName(i) == <<"Player", i + 1>>

newGame(playerCount, rs, startDiscard) ==
    LET rule     == getRoundRule(1)
        deck     == createDecks(FiveCrownsCompat)
        shuffled == shuffle(deck, rs)
        dealt    == deal(shuffled, playerCount, rule.handSize, startDiscard)
    IN  IF playerCount < 2 THEN Throws ELSE
        [ round                  |-> 1,
          rule                   |-> rule,
          players                |-> [i \in 1..playerCount |->
                                        [id |-> PlayerId(i - 1), name |-> PlayerName(i - 1),
                                         hand |-> dealt.hands[i], score |-> 0]],
          currentPlayerIndex     |-> 0,
          drawPile               |-> dealt.drawPile,
          discardPile            |-> dealt.discardPile,
          melds                  |-> << >>,
          selectedCardIds        |-> << >>,
          turnPhase              |-> "NEED_DRAW",
          outTriggeredByPlayerId |-> Undefined,
          turnsRemainingAfterOut |-> Undefined,
          status                 |-> "PLAYING" ]

Ranks(hand) == [i \in 1..Len(hand) |-> hand[i].rank]

\* an endRound that stores the round's penalty in place of the running total
endRound_ReplacesScore(s) ==
    LET updatedPlayers == [i \in 1..Len(s.players) |->
                              [s.players[i] EXCEPT
                                  !.score = scoreHand(Ranks(s.players[i].hand), s.rule)]]
        isGameOver     == s.round >= FiveCrownsCompat.totalRounds
    IN  [s EXCEPT !.players                = updatedPlayers,
                  !.selectedCardIds        = << >>,
                  !.turnPhase              = "NEED_DRAW",
                  !.status                 = IF isGameOver THEN "GAME_OVER" ELSE "ROUND_END",
                  !.outTriggeredByPlayerId = Undefined,
                  !.turnsRemainingAfterOut = Undefined]

\* an endRound that leaves the out-trigger fields as they are
endRound_KeepsOutFields(s) ==
    LET updatedPlayers == [i \in 1..Len(s.players) |->
                              [s.players[i] EXCEPT
                                  !.score = @ + scoreHand(Ranks(s.players[i].hand), s.rule)]]
        isGameOver     == s.round >= FiveCrownsCompat.totalRounds
    IN  [s EXCEPT !.players                = updatedPlayers,
                  !.selectedCardIds        = << >>,
                  !.turnPhase              = "NEED_DRAW",
                  !.status                 = IF isGameOver THEN "GAME_OVER" ELSE "ROUND_END"]

endRound(s) ==
    LET updatedPlayers == [i \in 1..Len(s.players) |->
                              [s.players[i] EXCEPT
                                  !.score = @ + scoreHand(Ranks(s.players[i].hand), s.rule)]]
        isGameOver     == s.round >= FiveCrownsCompat.totalRounds
    IN  [s EXCEPT !.players                = updatedPlayers,
                  !.selectedCardIds        = << >>,
                  !.turnPhase              = "NEED_DRAW",
                  !.status                 = IF isGameOver THEN "GAME_OVER" ELSE "ROUND_END",
                  !.outTriggeredByPlayerId = Undefined,
                  !.turnsRemainingAfterOut = Undefined]

\* [...players].sort((a, b) => a.score - b.score)[0]?.name: the sort is
\* stable, so of the players with the lowest score the first seated is taken
computeWinnerName(players) ==
    IF Len(players) = 0 THEN "Unknown"
    ELSE LET lowest == { i \in 1..Len(players) :
                           \A j \in 1..Len(players) : players[i].score <= players[j].score }
             first  == CHOOSE i \in lowest : \A j \in lowest : i <= j
         IN  players[first].name

\* the message endRound and nextRound set when the game is over
gameOverMessage(players) == <<"Game over. Winner: ", computeWinnerName(players)>>

\* a nextRound that leaves the status alone after the last round
nextRound_LastRoundNoGameOver(s, rs, startDiscard) ==
    IF s.round >= FiveCrownsCompat.totalRounds
    THEN s
    ELSE LET round    == s.round + 1
             rule     == getRoundRule(round)
             deck     == createDecks(FiveCrownsCompat)
             shuffled == shuffle(deck, rs)
             dealt    == deal(shuffled, Len(s.players), rule.handSize, startDiscard)
         IN  [s EXCEPT !.round                  = round,
                       !.rule                   = rule,
                       !.players                = [i \in 1..Len(s.players) |->
                                                     [s.players[i] EXCEPT !.hand = dealt.hands[i]]],
                       !.drawPile               = dealt.drawPile,
                       !.discardPile            = dealt.discardPile,
                       !.melds                  = << >>,
                       !.selectedCardIds        = << >>,
                       !.turnPhase              = "NEED_DRAW",
                       !.status                 = "PLAYING",
                       !.outTriggeredByPlayerId = Undefined,
                       !.turnsRemainingAfterOut = Undefined]

\* a nextRound that deals the larger hands but keeps the rule it found
nextRound_KeepsRule(s, rs, startDiscard) ==
    IF s.round >= FiveCrownsCompat.totalRounds
    THEN [s EXCEPT !.status = "GAME_OVER"]
    ELSE LET round    == s.round + 1
             rule     == getRoundRule(round)
             deck     == createDecks(FiveCrownsCompat)
             shuffled == shuffle(deck, rs)
             dealt    == deal(shuffled, Len(s.players), rule.handSize, startDiscard)
         IN  [s EXCEPT !.round                  = round,
                       !.players                = [i \in 1..Len(s.players) |->
                                                     [s.players[i] EXCEPT !.hand = dealt.hands[i]]],
                       !.drawPile               = dealt.drawPile,
                       !.discardPile            = dealt.discardPile,
                       !.melds                  = << >>,
                       !.selectedCardIds        = << >>,
                       !.turnPhase              = "NEED_DRAW",
                       !.status                 = "PLAYING",
                       !.outTriggeredByPlayerId = Undefined,
                       !.turnsRemainingAfterOut = Undefined]

\* a nextRound that deals by the rule of the round that ended
nextRound_StaleRule(s, rs, startDiscard) ==
    IF s.round >= FiveCrownsCompat.totalRounds
    THEN [s EXCEPT !.status = "GAME_OVER"]
    ELSE LET round    == s.round + 1
             rule     == s.rule
             deck     == createDecks(FiveCrownsCompat)
             shuffled == shuffle(deck, rs)
             dealt    == deal(shuffled, Len(s.players), rule.handSize, startDiscard)
         IN  [s EXCEPT !.round                  = round,
                       !.rule                   = getRoundRule(round),
                       !.players                = [i \in 1..Len(s.players) |->
                                                     [s.players[i] EXCEPT !.hand = dealt.hands[i]]],
                       !.drawPile               = dealt.drawPile,
                       !.discardPile            = dealt.discardPile,
                       !.melds                  = << >>,
                       !.selectedCardIds        = << >>,
                       !.turnPhase              = "NEED_DRAW",
                       !.status                 = "PLAYING",
                       !.outTriggeredByPlayerId = Undefined,
                       !.turnsRemainingAfterOut = Undefined]

\* a nextRound that gives the first turn of the new round to player index 0
nextRound_FromFirstSeat(s, rs, startDiscard) ==
    IF s.round >= FiveCrownsCompat.totalRounds
    THEN [s EXCEPT !.status = "GAME_OVER"]
    ELSE LET round    == s.round + 1
             rule     == getRoundRule(round)
             deck     == createDecks(FiveCrownsCompat)
             shuffled == shuffle(deck, rs)
             dealt    == deal(shuffled, Len(s.players), rule.handSize, startDiscard)
         IN  [s EXCEPT !.round                  = round,
                       !.rule                   = rule,
                       !.players                = [i \in 1..Len(s.players) |->
                                                     [s.players[i] EXCEPT !.hand = dealt.hands[i]]],
                       !.currentPlayerIndex     = 0,
                       !.drawPile               = dealt.drawPile,
                       !.discardPile            = dealt.discardPile,
                       !.melds                  = << >>,
                       !.selectedCardIds        = << >>,
                       !.turnPhase              = "NEED_DRAW",
                       !.status                 = "PLAYING",
                       !.outTriggeredByPlayerId = Undefined,
                       !.turnsRemainingAfterOut = Undefined]

nextRound(s, rs, startDiscard) ==
    IF s.round >= FiveCrownsCompat.totalRounds
    THEN [s EXCEPT !.status = "GAME_OVER"]
    ELSE LET round    == s.round + 1
             rule     == getRoundRule(round)
             deck     == createDecks(FiveCrownsCompat)
             shuffled == shuffle(deck, rs)
             dealt    == deal(shuffled, Len(s.players), rule.handSize, startDiscard)
         IN  [s EXCEPT !.round                  = round,
                       !.rule                   = rule,
                       !.players                = [i \in 1..Len(s.players) |->
                                                     [s.players[i] EXCEPT !.hand = dealt.hands[i]]],
                       !.drawPile               = dealt.drawPile,
                       !.discardPile            = dealt.discardPile,
                       !.melds                  = << >>,
                       !.selectedCardIds        = << >>,
                       !.turnPhase              = "NEED_DRAW",
                       !.status                 = "PLAYING",
                       !.outTriggeredByPlayerId = Undefined,
                       !.turnsRemainingAfterOut = Undefined]

\* a trigger that counts the player who went out among the final turns
triggerOutIfNeeded_CountsAll(s, playerId) ==
    IF s.outTriggeredByPlayerId # Undefined THEN s
    ELSE [s EXCEPT !.outTriggeredByPlayerId = Some(playerId),
                   !.turnsRemainingAfterOut = Some(Len(s.players))]

triggerOutIfNeeded(s, playerId) ==
    IF s.outTriggeredByPlayerId # Undefined THEN s
    ELSE [s EXCEPT !.outTriggeredByPlayerId = Some(playerId),
                   !.turnsRemainingAfterOut = Some(Len(s.players) - 1)]

\* a consume that takes the last turn and leaves the round open
consumeOutTurnIfNeeded_StaysOpen(s) ==
    IF s.outTriggeredByPlayerId = Undefined THEN s
    ELSE IF s.turnsRemainingAfterOut = Undefined THEN s
    ELSE LET next == s.turnsRemainingAfterOut[1] - 1
         IN  IF next <= 0 THEN [s EXCEPT !.turnsRemainingAfterOut = Some(0)]
             ELSE [s EXCEPT !.turnsRemainingAfterOut = Some(next)]

\* a consume that adds a turn instead of taking one
consumeOutTurnIfNeeded_Adds(s) ==
    IF s.outTriggeredByPlayerId = Undefined THEN s
    ELSE IF s.turnsRemainingAfterOut = Undefined THEN s
    ELSE LET next == s.turnsRemainingAfterOut[1] + 1
         IN  IF next <= 0 THEN endRound(s)
             ELSE [s EXCEPT !.turnsRemainingAfterOut = Some(next)]

consumeOutTurnIfNeeded(s) ==
    IF s.outTriggeredByPlayerId = Undefined THEN s
    ELSE IF s.turnsRemainingAfterOut = Undefined THEN s
    ELSE LET next == s.turnsRemainingAfterOut[1] - 1
         IN  IF next <= 0 THEN endRound(s)
             ELSE [s EXCEPT !.turnsRemainingAfterOut = Some(next)]

\* an afterDiscard that triggers the out on every emptied hand
afterDiscard_Overwrites(s0, playerId, newHandLength) ==
    LET s1 == IF newHandLength = 0
              THEN [s0 EXCEPT !.outTriggeredByPlayerId = Some(playerId),
                              !.turnsRemainingAfterOut = Some(Len(s0.players) - 1)]
              ELSE s0
        consume == s1.outTriggeredByPlayerId # Undefined
                   /\ s1.outTriggeredByPlayerId # Some(playerId)
        s2 == IF consume THEN consumeOutTurnIfNeeded(s1) ELSE s1
    IN  IF consume /\ s2.status # "PLAYING" THEN s2
        ELSE [s2 EXCEPT !.currentPlayerIndex = (s2.currentPlayerIndex + 1) % Len(s2.players),
                        !.turnPhase          = "NEED_DRAW"]

\* an afterDiscard that consumes a final turn only when the hand is not empty
afterDiscard_ElseIf(s0, playerId, newHandLength) ==
    LET s1 == IF newHandLength = 0 /\ s0.outTriggeredByPlayerId = Undefined
              THEN triggerOutIfNeeded(s0, playerId)
              ELSE s0
        consume == newHandLength # 0
                   /\ s1.outTriggeredByPlayerId # Undefined
                   /\ s1.outTriggeredByPlayerId # Some(playerId)
        s2 == IF consume THEN consumeOutTurnIfNeeded(s1) ELSE s1
    IN  IF consume /\ s2.status # "PLAYING" THEN s2
        ELSE [s2 EXCEPT !.currentPlayerIndex = (s2.currentPlayerIndex + 1) % Len(s2.players),
                        !.turnPhase          = "NEED_DRAW"]

\* an afterDiscard that takes a final turn from the player who went out too
afterDiscard_ConsumesOwn(s0, playerId, newHandLength) ==
    LET s1 == IF newHandLength = 0 /\ s0.outTriggeredByPlayerId = Undefined
              THEN triggerOutIfNeeded(s0, playerId)
              ELSE s0
        consume == s1.outTriggeredByPlayerId # Undefined
        s2 == IF consume THEN consumeOutTurnIfNeeded(s1) ELSE s1
    IN  IF consume /\ s2.status # "PLAYING" THEN s2
        ELSE [s2 EXCEPT !.currentPlayerIndex = (s2.currentPlayerIndex + 1) % Len(s2.players),
                        !.turnPhase          = "NEED_DRAW"]

\* an afterDiscard that moves to the next player before it ends the round
afterDiscard_AdvancesFirst(s0, playerId, newHandLength) ==
    LET s1 == IF newHandLength = 0 /\ s0.outTriggeredByPlayerId = Undefined
              THEN triggerOutIfNeeded(s0, playerId)
              ELSE s0
        s2 == [s1 EXCEPT !.currentPlayerIndex = (s1.currentPlayerIndex + 1) % Len(s1.players),
                         !.turnPhase          = "NEED_DRAW"]
    IN  IF s2.outTriggeredByPlayerId # Undefined /\ s2.outTriggeredByPlayerId # Some(playerId)
        THEN consumeOutTurnIfNeeded(s2)
        ELSE s2

\* an afterDiscard that triggers the out when at most one card is left
afterDiscard_TriggersAtOne(s0, playerId, newHandLength) ==
    LET s1 == IF newHandLength <= 1 /\ s0.outTriggeredByPlayerId = Undefined
              THEN triggerOutIfNeeded(s0, playerId)
              ELSE s0
        consume == s1.outTriggeredByPlayerId # Undefined
                   /\ s1.outTriggeredByPlayerId # Some(playerId)
        s2 == IF consume THEN consumeOutTurnIfNeeded(s1) ELSE s1
    IN  IF consume /\ s2.status # "PLAYING" THEN s2
        ELSE [s2 EXCEPT !.currentPlayerIndex = (s2.currentPlayerIndex + 1) % Len(s2.players),
                        !.turnPhase          = "NEED_DRAW"]

afterDiscard(s0, playerId, newHandLength) ==
    LET s1 == IF newHandLength = 0 /\ s0.outTriggeredByPlayerId = Undefined
              THEN triggerOutIfNeeded(s0, playerId)
              ELSE s0
        consume == s1.outTriggeredByPlayerId # Undefined
                   /\ s1.outTriggeredByPlayerId # Some(playerId)
        s2 == IF consume THEN consumeOutTurnIfNeeded(s1) ELSE s1
    IN  IF consume /\ s2.status # "PLAYING" THEN s2
        ELSE [s2 EXCEPT !.currentPlayerIndex = (s2.currentPlayerIndex + 1) % Len(s2.players),
                        !.turnPhase          = "NEED_DRAW"]

(***************************************************************************)
(* components/GameView.tsx: the handlers.  Each operator is the handler's   *)
(* effect on the GameState together with how it ended:                     *)
(*   "ok"       the action was committed,                                  *)
(*   "rejected" the updater returned the previous state with a reason,     *)
(*   "ignored"  the phase guard returned before any update,                *)
(*   "throws"   the updater threw (the state is not replaced).             *)
(* The guards canDraw/canDiscard/canMeld are those of the render of the    *)
(* state the update is applied to.                                         *)
(***************************************************************************)
\* a guard that stops play between rounds only
canAct_NotRoundEnd(s) == s.status # "ROUND_END"

canAct(s) == s.status = "PLAYING"
canDraw(s) == canAct(s) /\ s.turnPhase = "NEED_DRAW"
canDiscard(s) == canAct(s) /\ s.turnPhase = "NEED_DISCARD"
canMeld(s) == canAct(s) /\ s.turnPhase = "NEED_DISCARD"

Me(s) == s.players[s.currentPlayerIndex + 1]

Range(seq) == { seq[i] : i \in 1..Len(seq) }

CardIds(cards) == { c.id : c \in Range(cards) }

\* selectedCardIds.map((id) => handMap.get(id)).filter(Boolean)
SelectedCards(hand, selectedCardIds) ==
    LET found == SelectSeq(selectedCardIds, LAMBDA id : id \in CardIds(hand))
    IN  [k \in 1..Len(found) |-> CHOOSE c \in Range(hand) : c.id = found[k]]

\* hand.filter((c) => !remove.has(c.id))
WithoutIds(hand, remove) == SelectSeq(hand, LAMBDA c : c.id \notin remove)

SetHand(s, hand) == [s.players EXCEPT ![s.currentPlayerIndex + 1].hand = hand]

Outcome(s, res) == [state |-> s, res |-> res]

onToggleSelect(s, cardId) ==
    IF \E i \in 1..Len(s.selectedCardIds) : s.selectedCardIds[i] = cardId
    THEN [s EXCEPT !.selectedCardIds = SelectSeq(@, LAMBDA id : id # cardId)]
    ELSE [s EXCEPT !.selectedCardIds = Append(@, cardId)]

onClearSelection(s) == [s EXCEPT !.selectedCardIds = << >>]

\* a draw from the deck without the phase guard
onDrawFromDeck_NoGuard(s, rs) ==
    LET piles == IF Len(s.drawPile) = 0
                 THEN recycleDiscardIntoDraw(s.drawPile, s.discardPile, rs)
                 ELSE [drawPile |-> s.drawPile, discardPile |-> s.discardPile]
        res   == drawOne(piles.drawPile)
    IN  IF res = Throws THEN Outcome(s, "throws")
        ELSE Outcome([s EXCEPT !.players     = SetHand(s, Append(Me(s).hand, res.card)),
                               !.drawPile    = res.drawPile,
                               !.discardPile = piles.discardPile,
                               !.turnPhase   = "NEED_DISCARD"], "ok")

onDrawFromDeck(s, rs) ==
    IF ~canDraw(s) THEN Outcome(s, "ignored")
    ELSE LET piles == IF Len(s.drawPile) = 0
                      THEN recycleDiscardIntoDraw(s.drawPile, s.discardPile, rs)
                      ELSE [drawPile |-> s.drawPile, discardPile |-> s.discardPile]
             res   == drawOne(piles.drawPile)
         IN  IF res = Throws THEN Outcome(s, "throws")
             ELSE Outcome([s EXCEPT !.players     = SetHand(s, Append(Me(s).hand, res.card)),
                                    !.drawPile    = res.drawPile,
                                    !.discardPile = piles.discardPile,
                                    !.turnPhase   = "NEED_DISCARD"], "ok")

onDrawFromDiscard(s) ==
    IF ~canDraw(s) THEN Outcome(s, "ignored")
    ELSE IF Len(s.discardPile) = 0 THEN Outcome(s, "rejected")
    ELSE LET res == takeDiscardTop(s.discardPile)
         IN  Outcome([s EXCEPT !.players     = SetHand(s, Append(Me(s).hand, res.card)),
                               !.discardPile = res.discardPile,
                               !.turnPhase   = "NEED_DISCARD"], "ok")

\* `R${round}-${me.id}-${Date.now()}`
MeldId(round, playerId, now) == <<"R", round, playerId, now>>

\* a submit that files every meld as a BOOK
onSubmitMeld_AlwaysBook(s, now) ==
    IF ~canMeld(s) THEN Outcome(s, "ignored")
    ELSE LET me      == Me(s)
             cards   == SelectedCards(me.hand, s.selectedCardIds)
             book    == validateMeld(cards, "BOOK", s.rule)
             run     == validateMeld(cards, "RUN", s.rule)
             newHand == WithoutIds(me.hand, CardIds(cards))
         IN  IF Len(cards) = 0 THEN Outcome(s, "rejected")
             ELSE IF ~book /\ ~run THEN Outcome(s, "rejected")
             ELSE IF Len(newHand) < 1 THEN Outcome(s, "rejected")
             ELSE Outcome([s EXCEPT !.players         = SetHand(s, newHand),
                                    !.melds           = Append(@,
                                        [ id       |-> MeldId(s.round, me.id, now),
                                          playerId |-> me.id,
                                          type     |-> "BOOK",
                                          cards    |-> cards,
                                          round    |-> s.round ]),
                                    !.selectedCardIds = << >>], "ok")

\* a submit that tries RUN before BOOK
onSubmitMeld_RunFirst(s, now) ==
    IF ~canMeld(s) THEN Outcome(s, "ignored")
    ELSE LET me      == Me(s)
             cards   == SelectedCards(me.hand, s.selectedCardIds)
             book    == validateMeld(cards, "BOOK", s.rule)
             run     == validateMeld(cards, "RUN", s.rule)
             type    == IF run THEN "RUN" ELSE "BOOK"
             newHand == WithoutIds(me.hand, CardIds(cards))
         IN  IF Len(cards) = 0 THEN Outcome(s, "rejected")
             ELSE IF ~book /\ ~run THEN Outcome(s, "rejected")
             ELSE IF Len(newHand) < 1 THEN Outcome(s, "rejected")
             ELSE Outcome([s EXCEPT !.players         = SetHand(s, newHand),
                                    !.melds           = Append(@,
                                        [ id       |-> MeldId(s.round, me.id, now),
                                          playerId |-> me.id,
                                          type     |-> type,
                                          cards    |-> cards,
                                          round    |-> s.round ]),
                                    !.selectedCardIds = << >>], "ok")

\* a submit without the keep-one-card rule
onSubmitMeld_MayEmptyHand(s, now) ==
    IF ~canMeld(s) THEN Outcome(s, "ignored")
    ELSE LET me      == Me(s)
             cards   == SelectedCards(me.hand, s.selectedCardIds)
             book    == validateMeld(cards, "BOOK", s.rule)
             run     == validateMeld(cards, "RUN", s.rule)
             type    == IF book THEN "BOOK" ELSE "RUN"
             newHand == WithoutIds(me.hand, CardIds(cards))
         IN  IF Len(cards) = 0 THEN Outcome(s, "rejected")
             ELSE IF ~book /\ ~run THEN Outcome(s, "rejected")
             ELSE Outcome([s EXCEPT !.players         = SetHand(s, newHand),
                                    !.melds           = Append(@,
                                        [ id       |-> MeldId(s.round, me.id, now),
                                          playerId |-> me.id,
                                          type     |-> type,
                                          cards    |-> cards,
                                          round    |-> s.round ]),
                                    !.selectedCardIds = << >>], "ok")

onSubmitMeld(s, now) ==
    IF ~canMeld(s) THEN Outcome(s, "ignored")
    ELSE LET me      == Me(s)
             cards   == SelectedCards(me.hand, s.selectedCardIds)
             book    == validateMeld(cards, "BOOK", s.rule)
             run     == validateMeld(cards, "RUN", s.rule)
             type    == IF book THEN "BOOK" ELSE "RUN"
             newHand == WithoutIds(me.hand, CardIds(cards))
         IN  IF Len(cards) = 0 THEN Outcome(s, "rejected")
             ELSE IF ~book /\ ~run THEN Outcome(s, "rejected")
             ELSE IF Len(newHand) < 1 THEN Outcome(s, "rejected")
             ELSE Outcome([s EXCEPT !.players         = SetHand(s, newHand),
                                    !.melds           = Append(@,
                                        [ id       |-> MeldId(s.round, me.id, now),
                                          playerId |-> me.id,
                                          type     |-> type,
                                          cards    |-> cards,
                                          round    |-> s.round ]),
                                    !.selectedCardIds = << >>], "ok")

\* a lay-off without the keep-one-card rule
onLayoffToMeld_MayEmptyHand(s, meldId) ==
    IF ~canAct(s) \/ ~canMeld(s) THEN Outcome(s, "ignored")
    ELSE LET me         == Me(s)
             addedCards == SelectedCards(me.hand, s.selectedCardIds)
             targets    == SelectSeq(s.melds, LAMBDA m : m.id = meldId)
             newHand    == WithoutIds(me.hand, CardIds(addedCards))
         IN  IF Len(s.selectedCardIds) = 0 THEN Outcome(s, "rejected")
             ELSE IF Len(addedCards) = 0 THEN Outcome(s, "rejected")
             ELSE IF Len(targets) = 0 THEN Outcome(s, "rejected")
             ELSE IF ~validateLayoff(targets[1].type, targets[1].cards, addedCards, s.rule)
                  THEN Outcome(s, "rejected")
             ELSE Outcome([s EXCEPT !.players         = SetHand(s, newHand),
                                    !.melds           = [i \in 1..Len(s.melds) |->
                                        IF s.melds[i].id = meldId
                                        THEN [s.melds[i] EXCEPT !.cards = @ \o addedCards]
                                        ELSE s.melds[i]],
                                    !.selectedCardIds = << >>], "ok")

\* a lay-off that puts the added cards in front of the meld's cards
onLayoffToMeld_Prepends(s, meldId) ==
    IF ~canAct(s) \/ ~canMeld(s) THEN Outcome(s, "ignored")
    ELSE LET me         == Me(s)
             addedCards == SelectedCards(me.hand, s.selectedCardIds)
             targets    == SelectSeq(s.melds, LAMBDA m : m.id = meldId)
             newHand    == WithoutIds(me.hand, CardIds(addedCards))
         IN  IF Len(s.selectedCardIds) = 0 THEN Outcome(s, "rejected")
             ELSE IF Len(addedCards) = 0 THEN Outcome(s, "rejected")
             ELSE IF Len(me.hand) - Len(addedCards) < 1 THEN Outcome(s, "rejected")
             ELSE IF Len(targets) = 0 THEN Outcome(s, "rejected")
             ELSE IF ~validateLayoff(targets[1].type, targets[1].cards, addedCards, s.rule)
                  THEN Outcome(s, "rejected")
             ELSE Outcome([s EXCEPT !.players         = SetHand(s, newHand),
                                    !.melds           = [i \in 1..Len(s.melds) |->
                                        IF s.melds[i].id = meldId
                                        THEN [s.melds[i] EXCEPT !.cards = addedCards \o @]
                                        ELSE s.melds[i]],
                                    !.selectedCardIds = << >>], "ok")

onLayoffToMeld(s, meldId) ==
    IF ~canAct(s) \/ ~canMeld(s) THEN Outcome(s, "ignored")
    ELSE LET me         == Me(s)
             addedCards == SelectedCards(me.hand, s.selectedCardIds)
             targets    == SelectSeq(s.melds, LAMBDA m : m.id = meldId)
             newHand    == WithoutIds(me.hand, CardIds(addedCards))
         IN  IF Len(s.selectedCardIds) = 0 THEN Outcome(s, "rejected")
             ELSE IF Len(addedCards) = 0 THEN Outcome(s, "rejected")
             ELSE IF Len(me.hand) - Len(addedCards) < 1 THEN Outcome(s, "rejected")
             ELSE IF Len(targets) = 0 THEN Outcome(s, "rejected")
             ELSE IF ~validateLayoff(targets[1].type, targets[1].cards, addedCards, s.rule)
                  THEN Outcome(s, "rejected")
             ELSE Outcome([s EXCEPT !.players         = SetHand(s, newHand),
                                    !.melds           = [i \in 1..Len(s.melds) |->
                                        IF s.melds[i].id = meldId
                                        THEN [s.melds[i] EXCEPT !.cards = @ \o addedCards]
                                        ELSE s.melds[i]],
                                    !.selectedCardIds = << >>], "ok")

\* a discard without the phase guard
onDiscardSelected_NoGuard(s) ==
    LET me == Me(s)
    IN  IF Len(s.selectedCardIds) # 1 THEN Outcome(s, "rejected")
        ELSE LET cardId == s.selectedCardIds[1]
                 found  == SelectSeq(me.hand, LAMBDA c : c.id = cardId)
             IN  IF Len(found) = 0 THEN Outcome(s, "rejected")
                 ELSE LET newHand == WithoutIds(me.hand, {cardId})
                          base    == [s EXCEPT
                                        !.players         = SetHand(s, newHand),
                                        !.discardPile     = discardOne(s.discardPile, found[1]),
                                        !.selectedCardIds = << >>]
                      IN  Outcome(afterDiscard(base, me.id, Len(newHand)), "ok")

\* a discard that takes the first selected card whatever the selection's size
onDiscardSelected_AnyCount(s) ==
    IF ~canDiscard(s) THEN Outcome(s, "ignored")
    ELSE LET me == Me(s)
         IN  IF Len(s.selectedCardIds) = 0 THEN Outcome(s, "rejected")
             ELSE LET cardId == s.selectedCardIds[1]
                      found  == SelectSeq(me.hand, LAMBDA c : c.id = cardId)
                  IN  IF Len(found) = 0 THEN Outcome(s, "rejected")
                      ELSE LET newHand == WithoutIds(me.hand, {cardId})
                               base    == [s EXCEPT
                                             !.players         = SetHand(s, newHand),
                                             !.discardPile     = discardOne(s.discardPile, found[1]),
                                             !.selectedCardIds = << >>]
                           IN  Outcome(afterDiscard(base, me.id, Len(newHand)), "ok")

onDiscardSelected(s) ==
    IF ~canDiscard(s) THEN Outcome(s, "ignored")
    ELSE LET me == Me(s)
         IN  IF Len(s.selectedCardIds) # 1 THEN Outcome(s, "rejected")
             ELSE LET cardId == s.selectedCardIds[1]
                      found  == SelectSeq(me.hand, LAMBDA c : c.id = cardId)
                  IN  IF Len(found) = 0 THEN Outcome(s, "rejected")
                      ELSE LET newHand == WithoutIds(me.hand, {cardId})
                               base    == [s EXCEPT
                                             !.players         = SetHand(s, newHand),
                                             !.discardPile     = discardOne(s.discardPile, found[1]),
                                             !.selectedCardIds = << >>]
                           IN  Outcome(afterDiscard(base, me.id, Len(newHand)), "ok")

\* the earlier GameView's onDiscardSelected, with the transition written
\* out in the handler: an emptied hand triggers the out (if none is set) and
\* consumes nothing; otherwise a final turn is consumed when another player
\* is out; then the next player is to draw
onDiscardSelectedInline(s) ==
    IF ~canDiscard(s) THEN Outcome(s, "ignored")
    ELSE LET me == Me(s)
         IN  IF Len(s.selectedCardIds) # 1 THEN Outcome(s, "rejected")
             ELSE LET cardId == s.selectedCardIds[1]
                      found  == SelectSeq(me.hand, LAMBDA c : c.id = cardId)
                  IN  IF Len(found) = 0 THEN Outcome(s, "rejected")
                      ELSE LET newHand == WithoutIds(me.hand, {cardId})
                               base0   == [s EXCEPT
                                             !.players         = SetHand(s, newHand),
                                             !.discardPile     = discardOne(s.discardPile, found[1]),
                                             !.selectedCardIds = << >>]
                               consume == /\ Len(newHand) # 0
                                          /\ base0.outTriggeredByPlayerId # Undefined
                                          /\ base0.outTriggeredByPlayerId # Some(me.id)
                               base    == IF Len(newHand) = 0
                                          THEN triggerOutIfNeeded(base0, me.id)
                                          ELSE IF consume THEN consumeOutTurnIfNeeded(base0)
                                          ELSE base0
                           IN  IF consume /\ base.status # "PLAYING" THEN Outcome(base, "ok")
                               ELSE Outcome(
                                      [base EXCEPT
                                         !.currentPlayerIndex =
                                             (s.currentPlayerIndex + 1) % Len(s.players),
                                         !.turnPhase = "NEED_DRAW"], "ok")

\* The handlers as closures.  GameView computes canAct, canDraw, canDiscard
\* and canMeld from the state it was rendered with, and a handler tests them
\* before it calls setState; the function it passes to setState is applied
\* to the latest state (prev) and tests no phase.  `rendered` is the state
\* of the render the handler belongs to, `s` the state its update meets.
onDrawFromDeckAt(rendered, s, rs) ==
    IF ~canDraw(rendered) THEN Outcome(s, "ignored")
    ELSE LET piles == IF Len(s.drawPile) = 0
                      THEN recycleDiscardIntoDraw(s.drawPile, s.discardPile, rs)
                      ELSE [drawPile |-> s.drawPile, discardPile |-> s.discardPile]
             res   == drawOne(piles.drawPile)
         IN  IF res = Throws THEN Outcome(s, "throws")
             ELSE Outcome([s EXCEPT !.players     = SetHand(s, Append(Me(s).hand, res.card)),
                                    !.drawPile    = res.drawPile,
                                    !.discardPile = piles.discardPile,
                                    !.turnPhase   = "NEED_DISCARD"], "ok")

onDrawFromDiscardAt(rendered, s) ==
    IF ~canDraw(rendered) THEN Outcome(s, "ignored")
    ELSE IF Len(s.discardPile) = 0 THEN Outcome(s, "rejected")
    ELSE LET res == takeDiscardTop(s.discardPile)
         IN  Outcome([s EXCEPT !.players     = SetHand(s, Append(Me(s).hand, res.card)),
                               !.discardPile = res.discardPile,
                               !.turnPhase   = "NEED_DISCARD"], "ok")

onSubmitMeldAt(rendered, s, now) ==
    IF ~canMeld(rendered) THEN Outcome(s, "ignored")
    ELSE LET me      == Me(s)
             cards   == SelectedCards(me.hand, s.selectedCardIds)
             book    == validateMeld(cards, "BOOK", s.rule)
             run     == validateMeld(cards, "RUN", s.rule)
             type    == IF book THEN "BOOK" ELSE "RUN"
             newHand == WithoutIds(me.hand, CardIds(cards))
         IN  IF Len(cards) = 0 THEN Outcome(s, "rejected")
             ELSE IF ~book /\ ~run THEN Outcome(s, "rejected")
             ELSE IF Len(newHand) < 1 THEN Outcome(s, "rejected")
             ELSE Outcome([s EXCEPT !.players         = SetHand(s, newHand),
                                    !.melds           = Append(@,
                                        [ id       |-> MeldId(s.round, me.id, now),
                                          playerId |-> me.id,
                                          type     |-> type,
                                          cards    |-> cards,
                                          round    |-> s.round ]),
                                    !.selectedCardIds = << >>], "ok")

onLayoffToMeldAt(rendered, s, meldId) ==
    IF ~canAct(rendered) \/ ~canMeld(rendered) THEN Outcome(s, "ignored")
    ELSE LET me         == Me(s)
             addedCards == SelectedCards(me.hand, s.selectedCardIds)
             targets    == SelectSeq(s.melds, LAMBDA m : m.id = meldId)
             newHand    == WithoutIds(me.hand, CardIds(addedCards))
         IN  IF Len(s.selectedCardIds) = 0 THEN Outcome(s, "rejected")
             ELSE IF Len(addedCards) = 0 THEN Outcome(s, "rejected")
             ELSE IF Len(me.hand) - Len(addedCards) < 1 THEN Outcome(s, "rejected")
             ELSE IF Len(targets) = 0 THEN Outcome(s, "rejected")
             ELSE IF ~validateLayoff(targets[1].type, targets[1].cards, addedCards, s.rule)
                  THEN Outcome(s, "rejected")
             ELSE Outcome([s EXCEPT !.players         = SetHand(s, newHand),
                                    !.melds           = [i \in 1..Len(s.melds) |->
                                        IF s.melds[i].id = meldId
                                        THEN [s.melds[i] EXCEPT !.cards = @ \o addedCards]
                                        ELSE s.melds[i]],
                                    !.selectedCardIds = << >>], "ok")

onDiscardSelectedAt(rendered, s) ==
    IF ~canDiscard(rendered) THEN Outcome(s, "ignored")
    ELSE LET me == Me(s)
         IN  IF Len(s.selectedCardIds) # 1 THEN Outcome(s, "rejected")
             ELSE LET cardId == s.selectedCardIds[1]
                      found  == SelectSeq(me.hand, LAMBDA c : c.id = cardId)
                  IN  IF Len(found) = 0 THEN Outcome(s, "rejected")
                      ELSE LET newHand == WithoutIds(me.hand, {cardId})
                               base    == [s EXCEPT
                                             !.players         = SetHand(s, newHand),
                                             !.discardPile     = discardOne(s.discardPile, found[1]),
                                             !.selectedCardIds = << >>]
                           IN  Outcome(afterDiscard(base, me.id, Len(newHand)), "ok")

onNextRound(s, rs) == nextRound(s, rs, TRUE)

(***************************************************************************)
(* The program: App creates the game, GameView's buttons run the handlers. *)
(***************************************************************************)
Init ==
    /\ \E n \in PlayerCounts, rs \in RngStreams : state = newGame(n, rs, TRUE)
    /\ last = "newGame"
    /\ turns = 0
    /\ clock = 1
    /\ call = Idle

\* position of the card with this id in the hand
HandPos(hand, cardId) == CHOOSE i \in 1..Len(hand) : hand[i].id = cardId

\* The cards the model lets the player toggle: any selected card, and any
\* card of the hand to the right of every selected card (selections are made
\* left to right, so a meld holds its cards in hand order).
Togglable(s) ==
    LET hand == Me(s).hand
        sel  == s.selectedCardIds
    IN  { c.id : c \in { h \in Range(hand) :
            \/ h.id \in Range(sel)
            \/ \A k \in 1..Len(sel) :
                  sel[k] \in CardIds(hand) /\ HandPos(hand, sel[k]) < HandPos(hand, h.id) } }

ToggleSelect ==
    /\ canAct(state)
    /\ \E cardId \in Togglable(state) : state' = onToggleSelect(state, cardId)
    /\ UNCHANGED <<last, turns, clock, call>>

ClearSelection ==
    /\ canAct(state)
    /\ Len(state.selectedCardIds) > 0
    /\ state' = onClearSelection(state)
    /\ UNCHANGED <<last, turns, clock, call>>

\* A handler that does not commit (it is ignored, rejects or throws) leaves
\* the GameState as it is: that step is a stuttering step.
Commit(op, out) ==
    /\ out.res = "ok"
    /\ state' = out.state
    /\ last' = op

DrawFromDeck ==
    /\ turns < MaxTurns
    /\ \E rs \in RngStreams :
          Commit(IF Len(state.drawPile) = 0 THEN "recycleAndDraw" ELSE "drawFromDeck",
                 onDrawFromDeck(state, rs))
    /\ UNCHANGED <<turns, clock, call>>

DrawFromDiscard ==
    /\ turns < MaxTurns
    /\ Commit("drawFromDiscard", onDrawFromDiscard(state))
    /\ UNCHANGED <<turns, clock, call>>

\* Date.now() of a submit is later than that of every earlier submit
SubmitMeld ==
    /\ Commit("submitMeld", onSubmitMeld(state, clock))
    /\ clock' = clock + 1
    /\ UNCHANGED <<turns, call>>

\* the ids of the melds on the table, and one id that is not on the table
NoSuchMeldId == MeldId(0, PlayerId(0), 0)
LayoffTargets(s) == { m.id : m \in Range(s.melds) } \cup {NoSuchMeldId}

LayoffToMeld ==
    /\ \E meldId \in LayoffTargets(state) : Commit("layoffToMeld", onLayoffToMeld(state, meldId))
    /\ UNCHANGED <<turns, clock, call>>

DiscardSelected ==
    /\ Commit("discardSelected", onDiscardSelected(state))
    /\ turns' = turns + 1
    /\ UNCHANGED <<clock, call>>

\* the Next Round button is rendered only when status = ROUND_END
NextRound ==
    /\ state.status = "ROUND_END"
    /\ \E rs \in RngStreams : state' = onNextRound(state, rs)
    /\ last' = "nextRound"
    /\ UNCHANGED <<turns, clock, call>>

Next ==
    \/ ToggleSelect
    \/ ClearSelection
    \/ DrawFromDeck
    \/ DrawFromDiscard
    \/ SubmitMeld
    \/ LayoffToMeld
    \/ DiscardSelected
    \/ NextRound

Spec == Init /\ [][Next]_vars

(***************************************************************************)
(* The whole game as App starts it: two players.  The model follows        *)
(* MaxTurns discards of every round, with every shuffle drawing from the   *)
(* first RNG stream.                                                       *)
(***************************************************************************)
\* App passes two player names to newGame
AppPlayers == 2

GameInit ==
    /\ state = newGame(AppPlayers, RngStream(1), TRUE)
    /\ last = "newGame"
    /\ turns = 0
    /\ clock = 1
    /\ call = Idle

\* the Next Round button; the discards of the new round are counted from 0
NextRoundOfGame ==
    /\ state.status = "ROUND_END"
    /\ state' = onNextRound(state, RngStream(1))
    /\ last' = "nextRound"
    /\ turns' = 0
    /\ UNCHANGED <<clock, call>>

GameNext ==
    \/ ToggleSelect
    \/ ClearSelection
    \/ DrawFromDeck
    \/ DrawFromDiscard
    \/ SubmitMeld
    \/ LayoffToMeld
    \/ DiscardSelected
    \/ NextRoundOfGame

GameSpec == GameInit /\ [][GameNext]_vars

(***************************************************************************)
(* The engine under a caller other than GameView: nextRound is exported by *)
(* game/index.ts and checks no status, so it may be applied to any state.  *)
(***************************************************************************)
CallNextRound ==
    /\ state' = nextRound(state, RngStream(1), TRUE)
    /\ last' = "nextRound"
    /\ UNCHANGED <<turns, clock, call>>

EngineNext ==
    \/ ToggleSelect
    \/ ClearSelection
    \/ DrawFromDeck
    \/ DrawFromDiscard
    \/ SubmitMeld
    \/ LayoffToMeld
    \/ DiscardSelected
    \/ CallNextRound

EngineSpec == GameInit /\ [][EngineNext]_vars

(***************************************************************************)
(* The game with players who keep taking their turns.  A step is a whole   *)
(* request: the selection of the cards and the button.  The bound on the   *)
(* discards holds back the turns before an out only: once a player is out  *)
(* the final turns are taken (at most one per player more, so that a round *)
(* that would not end is seen to stay open).                               *)
(***************************************************************************)
MayDraw ==
    \/ turns < MaxTurns
    \/ state.outTriggeredByPlayerId # Undefined /\ turns < MaxTurns + Len(state.players)

TurnDrawFromDeck ==
    /\ MayDraw
    /\ Commit(IF Len(state.drawPile) = 0 THEN "recycleAndDraw" ELSE "drawFromDeck",
              onDrawFromDeck(state, RngStream(1)))
    /\ UNCHANGED <<turns, clock, call>>

TurnDrawFromDiscard ==
    /\ MayDraw
    /\ Commit("drawFromDiscard", onDrawFromDiscard(state))
    /\ UNCHANGED <<turns, clock, call>>

\* the selections the active player can make: cards of the hand, selected
\* from left to right
Selections(s) ==
    LET hand == Me(s).hand
    IN  { SelectSeq([i \in 1..Len(hand) |-> hand[i].id],
                    LAMBDA id : \E i \in P : hand[i].id = id) :
            P \in SUBSET (1..Len(hand)) }

\* the active player selects cards and presses Meld
TurnSubmitMeld ==
    /\ \E sel \in Selections(state) :
          Commit("submitMeld", onSubmitMeld([state EXCEPT !.selectedCardIds = sel], clock))
    /\ clock' = clock + 1
    /\ UNCHANGED <<turns, call>>

\* the active player selects cards and presses Lay Off on a meld
TurnLayoffToMeld ==
    /\ \E sel \in Selections(state) : \E meldId \in LayoffTargets(state) :
          Commit("layoffToMeld", onLayoffToMeld([state EXCEPT !.selectedCardIds = sel], meldId))
    /\ UNCHANGED <<turns, clock, call>>

\* the active player selects one card of the hand and presses Discard
TurnDiscard ==
    /\ \E c \in Range(Me(state).hand) :
         \E s \in {[state EXCEPT !.selectedCardIds = <<c.id>>]} :
           \E out \in {onDiscardSelected(s)} :
              Commit("discardSelected", out)
    /\ turns' = turns + 1
    /\ UNCHANGED <<clock, call>>

\* the Next Round button, as long as the deck of the model has the cards to
\* deal the next round to every player (the deck of the game always has)
TurnNextRound ==
    /\ state.status = "ROUND_END"
    /\ Len(state.players) * (state.rule.handSize + 1) <= Len(createDecks(FiveCrownsCompat))
    /\ state' = onNextRound(state, RngStream(1))
    /\ last' = "nextRound"
    /\ UNCHANGED <<turns, clock, call>>

TurnNext ==
    \/ TurnDrawFromDeck
    \/ TurnDrawFromDiscard
    \/ TurnSubmitMeld
    \/ TurnLayoffToMeld
    \/ TurnDiscard
    \/ TurnNextRound

\* the games of 2 and 3 players, each shuffled by the same Rng
TurnPlayerCounts == {2, 3}

TurnInit ==
    /\ \E n \in TurnPlayerCounts : state = newGame(n, RngStream(1), TRUE)
    /\ last = "newGame"
    /\ turns = 0
    /\ clock = 1
    /\ call = Idle

TurnSpec ==
    /\ TurnInit
    /\ [][TurnNext]_vars
    /\ WF_vars(TurnDrawFromDeck \/ TurnDrawFromDiscard)
    /\ WF_vars(TurnDiscard)

(***************************************************************************)
(* A late round under a clock that is read, not counted.  Date.now() is    *)
(* the wall clock in milliseconds: two reads return the same value when    *)
(* they fall in the same millisecond (or the timer is coarser, or the      *)
(* clock was set back), so a read returns the value of the read before or  *)
(* a later one.  Two melds of one player in one round need a hand of 7     *)
(* cards (3 + 3 and the discard), that is a round from the 4th on.         *)
(***************************************************************************)
\* the first round whose hand, with the card drawn, holds two melds
LateRound == 4

\* the state nextRound leaves at the start of that round in a two-player game
LateRoundState(rs) ==
    LET rule  == [round |-> LateRound, handSize |-> LateRound + 2, wildRank |-> LateRound + 2]
        dealt == deal(shuffle(createDecks(FiveCrownsCompat), rs), AppPlayers, rule.handSize, TRUE)
    IN  [ round                  |-> LateRound,
          rule                   |-> rule,
          players                |-> [i \in 1..AppPlayers |->
                                        [id |-> PlayerId(i - 1), name |-> PlayerName(i - 1),
                                         hand |-> dealt.hands[i], score |-> 0]],
          currentPlayerIndex     |-> 0,
          drawPile               |-> dealt.drawPile,
          discardPile            |-> dealt.discardPile,
          melds                  |-> << >>,
          selectedCardIds        |-> << >>,
          turnPhase              |-> "NEED_DRAW",
          outTriggeredByPlayerId |-> Undefined,
          turnsRemainingAfterOut |-> Undefined,
          status                 |-> "PLAYING" ]

ClockInit ==
    /\ \E rs \in RngStreams : state = LateRoundState(rs)
    /\ last = "nextRound"
    /\ turns = 0
    /\ clock = 1
    /\ call = Idle

\* turns the model follows in that round
ClockTurns == 1

ClockDrawFromDeck ==
    /\ turns < ClockTurns
    /\ \E rs \in RngStreams :
          Commit(IF Len(state.drawPile) = 0 THEN "recycleAndDraw" ELSE "drawFromDeck",
                 onDrawFromDeck(state, rs))
    /\ UNCHANGED <<turns, clock, call>>

ClockDrawFromDiscard ==
    /\ turns < ClockTurns
    /\ Commit("drawFromDiscard", onDrawFromDiscard(state))
    /\ UNCHANGED <<turns, clock, call>>

\* the values Date.now() may return at the next read
ClockReads == {clock, clock + 1}

\* the active player selects cards and presses Meld; the id of the meld is
\* built from the value Date.now() returns at that moment
ClockSubmitMeld ==
    /\ \E sel \in Selections(state) : \E now \in ClockReads :
          /\ Commit("submitMeld", onSubmitMeld([state EXCEPT !.selectedCardIds = sel], now))
          /\ clock' = now
    /\ UNCHANGED <<turns, call>>

ClockNext ==
    \/ ClockDrawFromDeck
    \/ ClockDrawFromDiscard
    \/ ClockSubmitMeld
    \/ TurnLayoffToMeld
    \/ TurnDiscard

ClockSpec == ClockInit /\ [][ClockNext]_vars

(***************************************************************************)
(* GameView with requests that arrive before the component has rendered    *)
(* again.  `call` holds the render the handlers on screen belong to: the   *)
(* state it showed and the number of updates applied since.  A step is a   *)
(* whole request: the cards selected on screen and the button.             *)
(***************************************************************************)
\* updates the model lets pile up behind one render
MaxPending == 2

Rendering(s) == [fn |-> "render", state |-> s, pending |-> 0]

StaleInit ==
    /\ state = newGame(AppPlayers, RngStream(1), TRUE)
    /\ last = "newGame"
    /\ turns = 0
    /\ clock = 1
    /\ call = Rendering(newGame(AppPlayers, RngStream(1), TRUE))

\* React renders the component with the latest state
Render ==
    /\ call.pending > 0
    /\ call' = Rendering(state)
    /\ UNCHANGED <<state, last, turns, clock>>

\* an update is applied behind the render on screen
Pending ==
    /\ call.pending < MaxPending
    /\ call' = [call EXCEPT !.pending = @ + 1]

StaleDrawFromDeck ==
    /\ turns < MaxTurns
    /\ Commit(IF Len(state.drawPile) = 0 THEN "recycleAndDraw" ELSE "drawFromDeck",
              onDrawFromDeckAt(call.state, state, RngStream(1)))
    /\ Pending
    /\ UNCHANGED <<turns, clock>>

StaleDrawFromDiscard ==
    /\ turns < MaxTurns
    /\ Commit("drawFromDiscard", onDrawFromDiscardAt(call.state, state))
    /\ Pending
    /\ UNCHANGED <<turns, clock>>

StaleSubmitMeld ==
    /\ \E sel \in Selections(call.state) :
          Commit("submitMeld",
                 onSubmitMeldAt(call.state, [state EXCEPT !.selectedCardIds = sel], clock))
    /\ Pending
    /\ clock' = clock + 1
    /\ UNCHANGED turns

StaleLayoffToMeld ==
    /\ \E sel \in Selections(call.state) : \E meldId \in LayoffTargets(call.state) :
          Commit("layoffToMeld",
                 onLayoffToMeldAt(call.state, [state EXCEPT !.selectedCardIds = sel], meldId))
    /\ Pending
    /\ UNCHANGED <<turns, clock>>

StaleDiscard ==
    /\ \E c \in Range(Me(call.state).hand) :
          Commit("discardSelected",
                 onDiscardSelectedAt(call.state, [state EXCEPT !.selectedCardIds = <<c.id>>]))
    /\ Pending
    /\ turns' = turns + 1
    /\ UNCHANGED clock

StaleNext ==
    \/ Render
    \/ StaleDrawFromDeck
    \/ StaleDrawFromDiscard
    \/ StaleSubmitMeld
    \/ StaleLayoffToMeld
    \/ StaleDiscard

StaleSpec == StaleInit /\ [][StaleNext]_vars

(***************************************************************************)
(* The rules and validator functions under a caller: one call of           *)
(* getRoundRule, validateMeld or validateLayoff on arguments drawn from    *)
(* the inputs below, its arguments and result kept in `call`.              *)
(***************************************************************************)
\* the longest card array handed to the validator
MaxMeldLen == 4

\* rounds handed to getRoundRule: in range, and out of range on both sides
InputRounds == (0 - 2)..(FiveCrownsCompat.totalRounds + 2)

InputSuits == {"STARS", "HEARTS"}
InputRanks == {3, 4, 5, 7}

\* cards as createDecks makes them: suited cards, and a joker (rank 0, STARS)
InputCards ==
    { [id |-> <<1, suit, rank, 0>>, suit |-> suit, rank |-> rank, deckIndex |-> 1] :
        suit \in InputSuits, rank \in InputRanks }
    \cup { [id |-> <<1, "JOKER", 0, 0>>, suit |-> "STARS", rank |-> 0, deckIndex |-> 1] }

CardSeqs(n) == UNION { [1..k -> InputCards] : k \in 0..n }

\* the rules of rounds 1 and 2: wild rank 3 and wild rank 4
InputRules == { getRoundRule(1), getRoundRule(2) }

RulesInit == GameInit

CallGetRoundRule ==
    /\ call = Idle
    /\ \E round \in InputRounds :
          call' = [fn |-> "getRoundRule", round |-> round, result |-> getRoundRule(round)]
    /\ UNCHANGED <<state, last, turns, clock>>

CallValidateMeld ==
    /\ call = Idle
    /\ \E cards \in CardSeqs(MaxMeldLen), type \in {"BOOK", "RUN"}, rule \in InputRules :
          call' = [fn |-> "validateMeld", cards |-> cards, type |-> type, rule |-> rule,
                   result |-> validateMeld(cards, type, rule)]
    /\ UNCHANGED <<state, last, turns, clock>>

\* the meld and the added cards together are at most MaxMeldLen cards
CallValidateLayoff ==
    /\ call = Idle
    /\ \E all \in CardSeqs(MaxMeldLen), type \in {"BOOK", "RUN"}, rule \in InputRules :
          \E k \in 0..Len(all) :
             LET meldCards  == SubSeq(all, 1, k)
                 addedCards == SubSeq(all, k + 1, Len(all))
             IN  call' = [fn |-> "validateLayoff", meldType |-> type,
                          meldCards |-> meldCards, addedCards |-> addedCards, rule |-> rule,
                          result |-> validateLayoff(type, meldCards, addedCards, rule)]
    /\ UNCHANGED <<state, last, turns, clock>>

\* ranks handed to scoreHand: joker, the wild ranks, number and face cards
ScoreRanks == {0, 3, 4, 5, 11, 13}

CallScoreHand ==
    /\ call = Idle
    /\ \E n \in 0..MaxMeldLen : \E ranks \in [1..n -> ScoreRanks] : \E rule \in InputRules :
          call' = [fn |-> "scoreHand", ranks |-> ranks, rule |-> rule,
                   result |-> scoreHand(ranks, rule)]
    /\ UNCHANGED <<state, last, turns, clock>>

\* jokers per deck copy in FiveCrownsCompat
JokersPerDeck == 3

\* the ranks 3..13 of FiveCrownsCompat
AllRanks == [i \in 1..11 |-> i + 2]

\* the configuration newGame and nextRound take from FiveCrownsCompat in the
\* code: 5 suits, ranks 3..13, 2 copies, 3 jokers per copy
DefaultDeckConfig ==
    [suits |-> AllSuits, ranks |-> AllRanks, decks |-> Decks, jokersPerDeck |-> JokersPerDeck]

\* configurations handed to createDecks: the default one and smaller ones
DeckConfigs ==
    { [suits |-> SubSeq(AllSuits, 1, ns), ranks |-> SubSeq(AllRanks, 1, nr),
       decks |-> nd, jokersPerDeck |-> nj] :
        ns \in {1, 2, 5}, nr \in {1, 3, 11}, nd \in 1..Decks, nj \in 0..JokersPerDeck }

CallCreateDecks ==
    /\ call = Idle
    /\ \E params \in DeckConfigs :
          call' = [fn |-> "createDecks", params |-> params, result |-> createDecks(params)]
    /\ UNCHANGED <<state, last, turns, clock>>

MaxShuffleLen == 4

\* numerators of the values an Rng returns to shuffle: 0, a middle value and
\* the largest value below 1
ShuffleRngValues == {0, 7, RngDenom - 1}

\* shuffle is called twice on the same array, each time with an Rng of its
\* own; the two return the same values for as long as the first call asks
\* and differ afterwards.  shuffle works on the copy a = [...arr], so the
\* caller's array after the call (arr) is the array handed in (input).
CallShuffle ==
    /\ call = Idle
    /\ \E n \in 0..MaxShuffleLen : \E arr \in [1..n -> 1..3] :
       \E rs \in [1..MaxShuffleLen -> ShuffleRngValues] : \E v \in ShuffleRngValues :
          LET rs2 == [k \in 1..MaxShuffleLen |-> IF k < n THEN rs[k] ELSE v]
          IN  call' = [fn |-> "shuffle", input |-> arr, rs |-> rs, rs2 |-> rs2,
                       result |-> shuffle(arr, rs), result2 |-> shuffle(arr, rs2),
                       arr |-> arr]
    /\ UNCHANGED <<state, last, turns, clock>>

MaxCalls == 3

\* halves of the seeds: seed >>> 0 is a 32-bit unsigned integer
SeedHalves == {0, 1, 255, 256, 32767, 32768, 65535}

CallMulberry32 ==
    /\ call = Idle
    /\ \E hi \in SeedHalves : \E lo \in SeedHalves : \E k \in 1..MaxCalls :
          call' = [fn |-> "mulberry32", seed |-> <<hi, lo>>, index |-> k,
                   result |-> mulberry32(<<hi, lo>>, k).value]
    /\ UNCHANGED <<state, last, turns, clock>>

\* recycleDiscardIntoDraw on piles made of the cards that are in no hand
\* after the deal, and onDrawFromDeck on the dealt game with these piles
CallRecycleDiscardIntoDraw ==
    /\ call = Idle
    /\ \E nd \in 0..2 : \E np \in 0..MaxShuffleLen :
       \E rs \in [1..MaxShuffleLen -> ShuffleRngValues] :
          LET spare       == state.discardPile \o state.drawPile
              drawPile    == SubSeq(spare, 1, nd)
              discardPile == SubSeq(spare, nd + 1, nd + np)
              s           == [state EXCEPT !.drawPile = drawPile, !.discardPile = discardPile]
          IN  call' = [fn |-> "recycleDiscardIntoDraw", drawPile |-> drawPile,
                       discardPile |-> discardPile, rs |-> rs,
                       result |-> recycleDiscardIntoDraw(drawPile, discardPile, rs),
                       hand |-> Me(s).hand, draw |-> onDrawFromDeck(s, rs)]
    /\ UNCHANGED <<state, last, turns, clock>>

\* numbers of names handed to newGame, too few ones included
NameCounts == 0..4

CallNewGame ==
    /\ call = Idle
    /\ \E n \in NameCounts : \E rs \in RngStreams : \E startDiscard \in BOOLEAN :
          call' = [fn |-> "newGame", playerCount |-> n, rs |-> rs,
                   startDiscard |-> startDiscard, result |-> newGame(n, rs, startDiscard)]
    /\ UNCHANGED <<state, last, turns, clock>>

RulesNext ==
    \/ CallCreateDecks
    \/ CallNewGame
    \/ CallRecycleDiscardIntoDraw
    \/ CallMulberry32
    \/ CallShuffle
    \/ CallGetRoundRule
    \/ CallValidateMeld
    \/ CallValidateLayoff
    \/ CallScoreHand

RulesSpec == RulesInit /\ [][RulesNext]_vars

(***************************************************************************)
(* Properties                                                              *)
(***************************************************************************)
Deck == createDecks(FiveCrownsCompat)

NPlayers == Len(state.players)
Hand(s, i) == s.players[i].hand
OutBy(s) == s.outTriggeredByPlayerId
TurnsLeft(s) == s.turnsRemainingAfterOut

\* the 0-based position of the player with this id
IndexOfPlayer(s, playerId) == (CHOOSE i \in 1..Len(s.players) : s.players[i].id = playerId) - 1

RECURSIVE Flatten(_)
Flatten(seqs) == IF seqs = << >> THEN << >> ELSE Head(seqs) \o Flatten(Tail(seqs))

\* every card of every zone: the hands, the draw pile, the discard pile, the melds
ZoneCards(s) ==
    Flatten([i \in 1..Len(s.players) |-> s.players[i].hand])
    \o s.drawPile \o s.discardPile
    \o Flatten([i \in 1..Len(s.melds) |-> s.melds[i].cards])

\* the step commits a discard
DiscardStep == turns' = turns + 1

\* C1: in every reachable state every card of the deck is in exactly one zone
\* (a hand, the draw pile, the discard pile or a meld): the zones together
\* hold as many cards as the deck, exactly the deck's cards, and no card id
\* twice.
C1_EveryCardInOneZone ==
    LET z == ZoneCards(state)
    IN  /\ Len(z) = Len(Deck)
        /\ Range(z) = Range(Deck)
        /\ Cardinality(CardIds(z)) = Len(z)

\* a draw has just recycled the discard pile while a meld lies on the table
C1_Witness ==
    /\ last = "recycleAndDraw"
    /\ Len(state.melds) > 0
    /\ Len(state.discardPile) = 1

\* C2: once outTriggeredByPlayerId is set, a step changes it only by clearing
\* it, and only in the discard that ends the round.
C2_OutTriggerWriteOnce ==
    [][ (OutBy(state) # Undefined /\ OutBy(state') # OutBy(state))
          => /\ OutBy(state') = Undefined
             /\ DiscardStep
             /\ state'.status \in {"ROUND_END", "GAME_OVER"} ]_vars

\* player 1 went out, then player 2 discarded the last card of the own hand,
\* and the out trigger still names player 1
C2_Witness ==
    /\ NPlayers = 3
    /\ state.status = "PLAYING"
    /\ last = "discardSelected"
    /\ OutBy(state) = Some(PlayerId(0))
    /\ Hand(state, 1) = << >>
    /\ Hand(state, 2) = << >>

\* C3: after an out by another player, every discard takes exactly 1 from
\* turnsRemainingAfterOut whatever hand size it leaves; the discard that
\* takes it to 0 ends the round in the same step, scores every player's hand
\* as the discard left it and does not advance the active player.
C3_FinalTurnConsumption ==
    [][ (DiscardStep /\ OutBy(state) # Undefined /\ OutBy(state) # Some(Me(state).id))
          => LET left == TurnsLeft(state)[1]
                 me   == state.currentPlayerIndex + 1
             IN  IF left - 1 = 0
                 THEN /\ state'.status \in {"ROUND_END", "GAME_OVER"}
                      /\ state'.currentPlayerIndex = state.currentPlayerIndex
                      /\ Len(Hand(state', me)) = Len(Hand(state, me)) - 1
                      /\ \A i \in 1..NPlayers :
                            /\ i # me => Hand(state', i) = Hand(state, i)
                            /\ state'.players[i].score =
                                  state.players[i].score
                                  + scoreHand(Ranks(Hand(state', i)), state.rule)
                 ELSE /\ TurnsLeft(state') = Some(left - 1)
                      /\ OutBy(state') = OutBy(state)
                      /\ state'.status = "PLAYING" ]_vars

\* of four players the first went out, and the second has used a final turn
\* with a discard that emptied the own hand: 2 final turns are left
C3_Witness ==
    /\ NPlayers = 4
    /\ last = "discardSelected"
    /\ OutBy(state) = Some(PlayerId(0))
    /\ TurnsLeft(state) = Some(2)
    /\ Hand(state, 2) = << >>

C5_GoOutOnlyByDiscard ==
    [][ /\ (state'.melds # state.melds /\ state'.round = state.round)
             => Len(Me(state').hand) >= 1
        /\ (canMeld(state)
            /\ Len(SelectedCards(Me(state).hand, state.selectedCardIds)) = Len(Me(state).hand))
             => /\ onSubmitMeld(state, clock).res = "rejected"
                /\ \A meldId \in LayoffTargets(state) :
                      onLayoffToMeld(state, meldId).res = "rejected"
        /\ \A i \in 1..NPlayers :
              (Len(Hand(state, i)) > 0 /\ Len(Hand(state', i)) = 0)
                 => DiscardStep /\ i = state.currentPlayerIndex + 1 ]_vars

\* the whole hand is selected and would be a valid lay-off onto a meld on the
\* table: only the keep-one-card rule stands against it
C5_Witness ==
    /\ canMeld(state)
    /\ Len(state.selectedCardIds) = Len(Me(state).hand)
    /\ \E m \in Range(state.melds) :
          validateLayoff(m.type, m.cards,
                         SelectedCards(Me(state).hand, state.selectedCardIds), state.rule)

RECURSIVE SumLen(_)
SumLen(seqs) == IF seqs = << >> THEN 0 ELSE Len(Head(seqs)) + SumLen(Tail(seqs))

HandTotal(s) == SumLen([i \in 1..Len(s.players) |-> s.players[i].hand])

\* the step adds cards to the hands of the round in progress
DrawStep == state'.round = state.round /\ HandTotal(state') > HandTotal(state)

\* C6: a draw is committed only when status = PLAYING and turnPhase =
\* NEED_DRAW (otherwise both draw handlers are ignored); it appends exactly
\* one card to the active player's hand, changes no other hand and sets
\* turnPhase to NEED_DISCARD; and turnPhase returns to NEED_DRAW only by a
\* discard, so there are no two draws without a discard in between.
C6_DrawGating ==
    [][ /\ DrawStep
             => /\ canDraw(state)
                /\ \E c \in Range(state.drawPile \o state.discardPile) :
                      Me(state').hand = Append(Me(state).hand, c)
                /\ \A i \in 1..NPlayers :
                      i # state.currentPlayerIndex + 1 => Hand(state', i) = Hand(state, i)
                /\ state'.currentPlayerIndex = state.currentPlayerIndex
                /\ state'.turnPhase = "NEED_DISCARD"
                /\ state'.status = "PLAYING"
        /\ ~canDraw(state)
             => /\ \A rs \in RngStreams : onDrawFromDeck(state, rs) = Outcome(state, "ignored")
                /\ onDrawFromDiscard(state) = Outcome(state, "ignored")
        /\ (state.turnPhase = "NEED_DISCARD" /\ state'.turnPhase = "NEED_DRAW")
             => DiscardStep ]_vars

\* the active player has taken the top discard and holds one card more than
\* the round's hand size
C6_Witness ==
    /\ last = "drawFromDiscard"
    /\ state.turnPhase = "NEED_DISCARD"
    /\ Len(Me(state).hand) = state.rule.handSize + 1

\* C7: submit-meld, lay-off and discard are committed only when status =
\* PLAYING and turnPhase = NEED_DISCARD (otherwise the three handlers are
\* ignored); NEED_DISCARD is entered only by a draw of the active player; and
\* a discard moves exactly one card from the active player's hand to the end
\* of the discard pile and touches no other hand, the draw pile or the melds.
C7_DiscardGating ==
    [][ /\ (DiscardStep \/ (state'.melds # state.melds /\ state'.round = state.round))
             => canDiscard(state)
        /\ DiscardStep
             => LET me == state.currentPlayerIndex + 1
                IN  /\ \E c \in Range(Hand(state, me)) :
                          /\ state'.discardPile = Append(state.discardPile, c)
                          /\ Hand(state', me) = WithoutIds(Hand(state, me), {c.id})
                    /\ Len(Hand(state', me)) = Len(Hand(state, me)) - 1
                    /\ \A i \in 1..NPlayers : i # me => Hand(state', i) = Hand(state, i)
                    /\ state'.drawPile = state.drawPile
                    /\ state'.melds = state.melds
        /\ (state.turnPhase = "NEED_DRAW" /\ state'.turnPhase = "NEED_DISCARD")
             => DrawStep /\ state'.currentPlayerIndex = state.currentPlayerIndex
        /\ ~canDiscard(state)
             => /\ onSubmitMeld(state, clock) = Outcome(state, "ignored")
                /\ \A meldId \in LayoffTargets(state) :
                      onLayoffToMeld(state, meldId) = Outcome(state, "ignored")
                /\ onDiscardSelected(state) = Outcome(state, "ignored") ]_vars

\* a discard has passed the turn to the next player and lies on the pile
C7_Witness ==
    /\ last = "discardSelected"
    /\ state.status = "PLAYING"
    /\ state.turnPhase = "NEED_DRAW"
    /\ Len(state.discardPile) >= 2

\* the fields of the game that a rejection leaves alone
GameFields(s) ==
    << [i \in 1..Len(s.players) |-> <<s.players[i].hand, s.players[i].score>>],
       s.drawPile, s.discardPile, s.melds, s.turnPhase, s.currentPlayerIndex,
       s.status, s.round, s.outTriggeredByPlayerId, s.turnsRemainingAfterOut >>

\* the handler did not commit and left the game as it was
Refused(out, s) == out.res # "ok" /\ GameFields(out.state) = GameFields(s)

\* C8: in every reachable state each request that breaks a rule is refused
\* and leaves hands, scores, piles, melds, turnPhase, currentPlayerIndex,
\* status, round and the out-trigger fields as they were: a selection valid
\* as neither BOOK nor RUN, a meld or lay-off that would empty the hand, a
\* lay-off onto a meld id not on the table, an empty selection, a discard
\* with a selection of other than 1 card, a draw from an empty discard pile,
\* a selected card that is not in the hand (the handlers applied to the state
\* with the top discard selected), and any action in the wrong phase; and
\* whenever a handler does not commit it leaves those fields as they were.
C8_RejectionLeavesStateUnchanged ==
    LET s        == state
        cards    == SelectedCards(Me(s).hand, s.selectedCardIds)
        draw(rs) == onDrawFromDeck(s, rs)
        take     == onDrawFromDiscard(s)
        submit   == onSubmitMeld(s, clock)
        lay(id)  == onLayoffToMeld(s, id)
        discard  == onDiscardSelected(s)
    IN  /\ \A rs \in RngStreams : draw(rs).res # "ok" => Refused(draw(rs), s)
        /\ take.res # "ok" => Refused(take, s)
        /\ submit.res # "ok" => Refused(submit, s)
        /\ \A id \in LayoffTargets(s) : lay(id).res # "ok" => Refused(lay(id), s)
        /\ discard.res # "ok" => Refused(discard, s)
        /\ (~validateMeld(cards, "BOOK", s.rule) /\ ~validateMeld(cards, "RUN", s.rule))
              => Refused(submit, s)
        /\ Len(cards) = Len(Me(s).hand)
              => Refused(submit, s) /\ \A id \in LayoffTargets(s) : Refused(lay(id), s)
        /\ Refused(lay(NoSuchMeldId), s)
        /\ Len(s.selectedCardIds) = 0
              => Refused(submit, s) /\ \A id \in LayoffTargets(s) : Refused(lay(id), s)
        /\ Len(s.selectedCardIds) # 1 => Refused(discard, s)
        /\ Len(s.discardPile) = 0 => Refused(take, s)
        /\ Len(s.discardPile) > 0
              => LET stale == [s EXCEPT !.selectedCardIds =
                                          <<s.discardPile[Len(s.discardPile)].id>>]
                 IN  /\ Refused(onDiscardSelected(stale), stale)
                     /\ Refused(onSubmitMeld(stale, clock), stale)
                     /\ \A id \in LayoffTargets(s) : Refused(onLayoffToMeld(stale, id), stale)
        /\ ~canDraw(s) => Refused(take, s) /\ \A rs \in RngStreams : Refused(draw(rs), s)
        /\ ~canDiscard(s)
              => /\ Refused(submit, s) /\ Refused(discard, s)
                 /\ \A id \in LayoffTargets(s) : Refused(lay(id), s)

\* three cards are selected in the discard phase that are neither a BOOK nor
\* a RUN, with a meld on the table that they do not extend either
C8_Witness ==
    LET cards == SelectedCards(Me(state).hand, state.selectedCardIds)
    IN  /\ canMeld(state)
        /\ Len(cards) = 3
        /\ ~validateMeld(cards, "BOOK", state.rule)
        /\ ~validateMeld(cards, "RUN", state.rule)
        /\ \E m \in Range(state.melds) : ~validateLayoff(m.type, m.cards, cards, state.rule)

\* C9: in every reachable state every meld on the table has at least 3 cards
\* and passes validateMeld for its own type under the active rule.
C9_MeldsAlwaysValid ==
    \A m \in Range(state.melds) :
        Len(m.cards) >= 3 /\ validateMeld(m.cards, m.type, state.rule)

\* a RUN on the table that a lay-off has extended beyond its first cards
C9_Witness ==
    \E m \in Range(state.melds) :
        m.type = "RUN" /\ Len(m.cards) >= 4 /\ last = "layoffToMeld"

\* C10: once turnsRemainingAfterOut is set no step increases it, and it
\* becomes undefined only in the discard that ends the round or when a new
\* round starts.
C10_TurnsRemainingMonotone ==
    [][ TurnsLeft(state) # Undefined
          => IF TurnsLeft(state') # Undefined
             THEN /\ TurnsLeft(state')[1] <= TurnsLeft(state)[1]
                  /\ state'.round = state.round
             ELSE \/ DiscardStep /\ state'.status \in {"ROUND_END", "GAME_OVER"}
                  \/ last' = "nextRound" ]_vars

\* of four players one is out and one final turn has been used; the next
\* player is choosing cards
C10_Witness ==
    /\ NPlayers = 4
    /\ TurnsLeft(state) = Some(2)
    /\ state.currentPlayerIndex = 2
    /\ Len(state.selectedCardIds) > 0

\* the round in progress: its number, hands, piles, melds and out trigger
RoundFields(s) ==
    << s.round, [i \in 1..Len(s.players) |-> s.players[i].hand],
       s.drawPile, s.discardPile, s.melds,
       s.outTriggeredByPlayerId, s.turnsRemainingAfterOut >>

\* C11: nextRound applied to a state whose status is PLAYING does not start
\* a new round: the round number, hands, piles, melds and out-trigger fields
\* of the round in progress stay as they are.
C11_NextRoundOnlyAtRoundEnd ==
    [][ (state.status = "PLAYING" /\ last' = "nextRound")
          => RoundFields(state') = RoundFields(state) ]_vars

\* C12: nextRound from ROUND_END of a round r below the total gives round
\* r + 1 under getRoundRule(r + 1), the same players in the same order with
\* their ids and cumulative scores, r + 3 cards in every hand dealt from a
\* fresh deck (hands and piles together are the deck, each card once), no
\* melds, no out trigger, turnPhase NEED_DRAW and status PLAYING.
C12_NextRoundDealsNextRound ==
    [][ (state.status = "ROUND_END" /\ last' = "nextRound"
         /\ state.round < FiveCrownsCompat.totalRounds)
          => LET r == state.round
                 z == ZoneCards(state')
             IN  /\ state'.round = r + 1
                 /\ state'.rule = getRoundRule(r + 1)
                 /\ Len(state'.players) = Len(state.players)
                 /\ \A i \in 1..NPlayers :
                       /\ state'.players[i].id = state.players[i].id
                       /\ state'.players[i].score = state.players[i].score
                       /\ Len(Hand(state', i)) = r + 3
                 /\ Len(z) = Len(Deck)
                 /\ Range(z) = Range(Deck)
                 /\ state'.melds = << >>
                 /\ OutBy(state') = Undefined
                 /\ TurnsLeft(state') = Undefined
                 /\ state'.turnPhase = "NEED_DRAW"
                 /\ state'.status = "PLAYING" ]_vars

\* round 2 has just been dealt, and a player carries a score from round 1
C12_Witness ==
    /\ last = "nextRound"
    /\ state.round = 2
    /\ state.status = "PLAYING"
    /\ \E i \in 1..NPlayers : state.players[i].score > 0
    /\ \A i \in 1..NPlayers : Len(Hand(state, i)) = 4

\* the step applies nextRound (selecting cards leaves `last` and the status)
NextRoundStep == last' = "nextRound" /\ (last # "nextRound" \/ state'.status # state.status)

\* C13: the round never exceeds the total; nextRound applied in the last
\* round sets status GAME_OVER and changes nothing else, the round least of
\* all; and so it does on the last round's state taken with status
\* ROUND_END.
C13_LastRoundEndsGame ==
    [][ /\ state.round \in 1..FiveCrownsCompat.totalRounds
        /\ state'.round \in 1..FiveCrownsCompat.totalRounds
        /\ (NextRoundStep /\ state.round = FiveCrownsCompat.totalRounds)
              => state' = [state EXCEPT !.status = "GAME_OVER"]
        /\ state.round = FiveCrownsCompat.totalRounds
              => LET s == [state EXCEPT !.status = "ROUND_END"]
                 IN  \A rs \in RngStreams :
                        nextRound(s, rs, TRUE) = [s EXCEPT !.status = "GAME_OVER"] ]_vars

\* nextRound has been applied in the last round: the game is over, still in
\* that round
C13_Witness ==
    /\ last = "nextRound"
    /\ state.round = FiveCrownsCompat.totalRounds
    /\ state.status = "GAME_OVER"

\* what endRound is to make of the state s
EndRoundResult(s, e) ==
    /\ Len(e.players) = Len(s.players)
    /\ \A i \in 1..Len(s.players) :
          /\ e.players[i].id = s.players[i].id
          /\ e.players[i].hand = s.players[i].hand
          /\ e.players[i].score =
                s.players[i].score + scoreHand(Ranks(s.players[i].hand), s.rule)
    /\ e.status = IF s.round = FiveCrownsCompat.totalRounds THEN "GAME_OVER" ELSE "ROUND_END"
    /\ e.outTriggeredByPlayerId = Undefined
    /\ e.turnsRemainingAfterOut = Undefined
    /\ e.drawPile = s.drawPile
    /\ e.discardPile = s.discardPile
    /\ e.melds = s.melds
    /\ e.round = s.round
    /\ e.rule = s.rule

\* C14: endRound adds scoreHand of each player's hand under the round's rule
\* to that player's score, sets status ROUND_END (GAME_OVER in the last
\* round), clears the out-trigger fields and leaves hands, piles, melds and
\* round alone: on every reachable state, and in the discard that ends a
\* round, where it is applied to the state the discard has made.
C14_EndRoundScores ==
    [][ /\ EndRoundResult(state, endRound(state))
        /\ (DiscardStep /\ state'.status # "PLAYING")
              => \E c \in Range(Me(state).hand) :
                    EndRoundResult(
                        [state EXCEPT !.players = SetHand(state, WithoutIds(Me(state).hand, {c.id})),
                                      !.discardPile = Append(state.discardPile, c)],
                        state') ]_vars

\* the last round has been scored after play in both rounds: the game is
\* over, a meld lies on the table and a player has a penalty
C14_Witness ==
    /\ state.status = "GAME_OVER"
    /\ last = "discardSelected"
    /\ Len(state.melds) > 0
    /\ \E i \in 1..NPlayers : state.players[i].score > 0 /\ Len(Hand(state, i)) > 0

\* C15: status GAME_OVER occurs only in the last round, and from then on no
\* step changes round, hands, scores, piles, melds or status: a draw, a
\* submit-meld, a lay-off and a discard (also with a card of the hand
\* selected) and nextRound all leave them as they are.
C15_GameOverIsTerminal ==
    [][ state.status = "GAME_OVER"
          => /\ state.round = FiveCrownsCompat.totalRounds
             /\ GameFields(state') = GameFields(state)
             /\ \A sel \in {<< >>} \cup { <<c.id>> : c \in Range(Me(state).hand) } :
                   LET s == [state EXCEPT !.selectedCardIds = sel]
                   IN  /\ \A rs \in RngStreams : Refused(onDrawFromDeck(s, rs), s)
                       /\ Refused(onDrawFromDiscard(s), s)
                       /\ Refused(onSubmitMeld(s, clock), s)
                       /\ \A id \in LayoffTargets(s) : Refused(onLayoffToMeld(s, id), s)
                       /\ Refused(onDiscardSelected(s), s)
             /\ \A rs \in RngStreams :
                   GameFields(nextRound(state, rs, TRUE)) = GameFields(state) ]_vars

\* the game is over with cards left in the hand of the player whose turn it
\* would be, the draw pile and the discard pile
C15_Witness ==
    /\ state.status = "GAME_OVER"
    /\ Len(Me(state).hand) > 0
    /\ Len(state.drawPile) > 0
    /\ Len(state.discardPile) > 0
    /\ state.turnPhase = "NEED_DRAW"

\* the rule of the state s is the one its round number gives
RuleOfRound(s) ==
    /\ s.round \in 1..FiveCrownsCompat.totalRounds
    /\ s.rule = getRoundRule(s.round)
    /\ s.rule.round = s.round
    /\ s.rule.handSize = s.round + 2
    /\ s.rule.wildRank = s.round + 2

\* C16: in every reachable state the round is within 1..total and the rule
\* is getRoundRule(round), with handSize = wildRank = round + 2; the rule
\* changes only when nextRound starts the next round, never in a draw, meld,
\* lay-off or discard, nor when the round is scored.
C16_RuleDerivedFromRound ==
    [][ /\ RuleOfRound(state)
        /\ RuleOfRound(state')
        /\ state'.rule # state.rule
              => /\ last' = "nextRound"
                 /\ state.status = "ROUND_END"
                 /\ state'.round = state.round + 1 ]_vars

\* round 2 has been played and scored under hand size and wild rank 4
C16_Witness ==
    /\ state.round = 2
    /\ state.rule.wildRank = 4
    /\ state.status # "PLAYING"
    /\ last = "discardSelected"
    /\ \E m \in Range(state.melds) : \E i \in 1..Len(m.cards) : m.cards[i].rank = 4

\* C17: getRoundRule(round) returns handSize = round + 2 and wildRank =
\* handSize, a rank in 3..13 and never 0, for every round from 1 to the
\* total, and throws for every round below 1 or above the total.
C17_GetRoundRule ==
    call.fn = "getRoundRule"
      => IF call.round >= 1 /\ call.round <= FiveCrownsCompat.totalRounds
         THEN /\ call.result = [round    |-> call.round,
                                handSize |-> call.round + 2,
                                wildRank |-> call.round + 2]
              /\ call.result.wildRank = call.result.handSize
              /\ call.result.wildRank \in 3..13
              /\ call.result.wildRank # 0
         ELSE call.result = Throws

\* getRoundRule has been called for the last round
C17_Witness ==
    /\ call.fn = "getRoundRule"
    /\ call.round = FiveCrownsCompat.totalRounds
    /\ call.result # Throws

\* the ranks of the cards that are not wild: not a joker (rank 0) and not of
\* the round's wild rank
NonWildRanks(cards, rule) ==
    { cards[i].rank : i \in { j \in 1..Len(cards) :
                                cards[j].rank # 0 /\ cards[j].rank # rule.wildRank } }

\* at least 3 cards whose non-wild cards share one rank
BookOk(cards, rule) == Len(cards) >= 3 /\ Cardinality(NonWildRanks(cards, rule)) <= 1

\* C18: validateMeld(cards, BOOK, rule) is ok exactly when cards has at least
\* 3 cards and its non-wild cards share one rank, whatever the suits: 3 or
\* more wild cards alone are accepted, two different non-wild ranks are
\* rejected.
C18_BookIff ==
    (call.fn = "validateMeld" /\ call.type = "BOOK")
      => /\ call.result = BookOk(call.cards, call.rule)
         /\ (Len(call.cards) >= 3 /\ NonWildRanks(call.cards, call.rule) = {})
               => call.result = TRUE
         /\ Cardinality(NonWildRanks(call.cards, call.rule)) >= 2
               => call.result = FALSE

\* a book of two cards of one rank in different suits, led by a joker and a
\* card of the wild rank
C18_Witness ==
    /\ call.fn = "validateMeld"
    /\ call.type = "BOOK"
    /\ call.result = TRUE
    /\ Len(call.cards) = 4
    /\ call.cards[1].rank = 0
    /\ call.cards[2].rank = call.rule.wildRank
    /\ call.cards[3].rank = 5
    /\ call.cards[4].rank = 5
    /\ call.cards[3].suit # call.cards[4].suit

\* the positions of the cards that are not wild
NonWildAt(cards, rule) ==
    { j \in 1..Len(cards) : cards[j].rank # 0 /\ cards[j].rank # rule.wildRank }

\* the ranks missing between a rank of the set and the next higher one,
\* summed over the set
RECURSIVE GapsFrom(_, _)
GapsFrom(ranks, todo) ==
    IF todo = {} THEN 0
    ELSE LET a     == CHOOSE x \in todo : TRUE
             above == { b \in ranks : b > a }
             next  == CHOOSE b \in above : \A c \in above : b <= c
         IN  (IF above = {} THEN 0 ELSE next - a - 1) + GapsFrom(ranks, todo \ {a})

\* at least 3 cards, and either all wild or non-wild cards of one suit and
\* distinct ranks whose gaps the wild cards can fill
RunOk(cards, rule) ==
    LET at    == NonWildAt(cards, rule)
        ranks == { cards[j].rank : j \in at }
    IN  /\ Len(cards) >= 3
        /\ \/ at = {}
           \/ /\ \A i, j \in at : cards[i].suit = cards[j].suit
              /\ \A i, j \in at : i # j => cards[i].rank # cards[j].rank
              /\ GapsFrom(ranks, ranks) <= Len(cards) - Cardinality(at)

\* C19: validateMeld(cards, RUN, rule) is ok exactly when cards has at least
\* 3 cards and either all are wild, or the non-wild cards share one suit,
\* have pairwise distinct ranks and leave gaps between consecutive ranks
\* whose sum is at most the number of wild cards; where the run would start
\* or end is not checked.
C19_RunIff ==
    (call.fn = "validateMeld" /\ call.type = "RUN")
      => call.result = RunOk(call.cards, call.rule)

\* the run 3, 5, 7 given out of order with one joker is refused: each gap
\* is one rank wide, but the two together need two wild cards
C19_Witness ==
    /\ call.fn = "validateMeld"
    /\ call.type = "RUN"
    /\ call.result = FALSE
    /\ call.rule.wildRank = 4
    /\ [i \in 1..Len(call.cards) |-> call.cards[i].rank] = <<7, 0, 3, 5>>
    /\ \A i \in {1, 3, 4} : call.cards[i].suit = "HEARTS"

\* C20: validateLayoff fails when addedCards is empty; otherwise its result
\* is that of validateMeld on meldCards followed by addedCards under the
\* meld's type and the rule: a RUN is re-checked for suit, distinct ranks
\* and wild budget, a BOOK for one rank, over the whole enlarged set.
C20_LayoffRevalidatesWhole ==
    call.fn = "validateLayoff"
      => LET whole == call.meldCards \o call.addedCards
         IN  IF call.addedCards = << >>
             THEN call.result = FALSE
             ELSE /\ call.result = validateMeld(whole, call.meldType, call.rule)
                  /\ call.meldType = "RUN" => call.result = RunOk(whole, call.rule)
                  /\ call.meldType = "BOOK" => call.result = BookOk(whole, call.rule)

\* a card is refused on a valid run of three because its rank is already in
\* the run, though its suit fits
C20_Witness ==
    /\ call.fn = "validateLayoff"
    /\ call.meldType = "RUN"
    /\ Len(call.meldCards) = 3
    /\ validateMeld(call.meldCards, "RUN", call.rule)
    /\ Len(call.addedCards) = 1
    /\ \E i \in 1..3 :
          /\ call.meldCards[i].rank = call.addedCards[1].rank
          /\ call.meldCards[i].suit = call.addedCards[1].suit
          /\ ~isWildRank(call.addedCards[1].rank, call.rule)
    /\ call.result = FALSE

\* the meld a committed submit has put on the table
NewMeld(out) == out.state.melds[Len(out.state.melds)]

\* C21 as stated: a submit in the discard phase files the selection as BOOK
\* whenever it passes as BOOK, as RUN exactly when it fails as BOOK and
\* passes as RUN, and is rejected exactly when it fails as both.
C21_RejectedIffFailsBoth ==
    canMeld(state)
      => LET cards == SelectedCards(Me(state).hand, state.selectedCardIds)
             book  == validateMeld(cards, "BOOK", state.rule)
             run   == validateMeld(cards, "RUN", state.rule)
             out   == onSubmitMeld(state, clock)
         IN  /\ out.res = "rejected" <=> (~book /\ ~run)
             /\ book => (out.res = "ok" /\ NewMeld(out).type = "BOOK")
             /\ (~book /\ run) <=> (out.res = "ok" /\ NewMeld(out).type = "RUN")

\* C21: a committed submit adds one meld of the selected cards, of type BOOK
\* when the selection passes as BOOK (also when it would pass as RUN) and of
\* type RUN exactly when it fails as BOOK and passes as RUN; the submit is
\* rejected exactly when the selection fails as both or is the whole hand.
C21_MeldTypeAutoDetected ==
    canMeld(state)
      => LET cards == SelectedCards(Me(state).hand, state.selectedCardIds)
             book  == validateMeld(cards, "BOOK", state.rule)
             run   == validateMeld(cards, "RUN", state.rule)
             out   == onSubmitMeld(state, clock)
         IN  /\ out.res \in {"ok", "rejected"}
             /\ out.res = "rejected"
                   <=> ((~book /\ ~run) \/ Len(cards) = Len(Me(state).hand))
             /\ out.res = "ok"
                   => /\ Len(out.state.melds) = Len(state.melds) + 1
                      /\ NewMeld(out).cards = cards
                      /\ book => NewMeld(out).type = "BOOK"
                      /\ NewMeld(out).type = "RUN" <=> (~book /\ run)

\* a selection that passes as BOOK and as RUN has been submitted and lies on
\* the table as a BOOK
C21_Witness ==
    /\ last = "submitMeld"
    /\ LET m == state.melds[Len(state.melds)]
       IN  /\ m.type = "BOOK"
           /\ validateMeld(m.cards, "BOOK", state.rule)
           /\ validateMeld(m.cards, "RUN", state.rule)

\* how many of the ranks are r
CountOf(ranks, r) == Cardinality({ i \in 1..Len(ranks) : ranks[i] = r })

\* face value times number of cards, summed over the ranks of the set
RECURSIVE FaceTotal(_, _)
FaceTotal(ranks, values) ==
    IF values = {} THEN 0
    ELSE LET v == CHOOSE x \in values : TRUE
         IN  v * CountOf(ranks, v) + FaceTotal(ranks, values \ {v})

\* C22: scoreHand is 50 for every joker (rank 0) plus 20 for every card of
\* the round's wild rank plus the face value of every other card; it is 0
\* for the empty hand and 20 * k for k cards of the wild rank.
C22_ScoreHandSums ==
    call.fn = "scoreHand"
      => LET ranks == call.ranks
             wild  == call.rule.wildRank
         IN  /\ call.result = 50 * CountOf(ranks, 0) + 20 * CountOf(ranks, wild)
                                + FaceTotal(ranks, ScoreRanks \ {0, wild})
             /\ ranks = << >> => call.result = 0
             /\ CountOf(ranks, wild) = Len(ranks) => call.result = 20 * Len(ranks)

\* a hand of a joker, a card of the wild rank, a 5 and a king scores 88
C22_Witness ==
    /\ call.fn = "scoreHand"
    /\ call.ranks = <<0, call.rule.wildRank, 5, 13>>
    /\ call.result = 88

\* the names of the players whose score is the lowest
LowestScoreNames(players) ==
    { players[i].name : i \in { k \in 1..Len(players) :
                                  \A j \in 1..Len(players) : players[k].score <= players[j].score } }

\* C23: when the game is over the winners reported are all the players
\* whose cumulative score is the lowest: players tied for it are all named.
C23_AllTiedWinnersReported ==
    state.status = "GAME_OVER"
      => {gameOverMessage(state.players)[2]} = LowestScoreNames(state.players)

\* the card createDecks is to put at the 0-based position k
CardAt(params, k) ==
    LET suited == Len(params.suits) * Len(params.ranks)
        per    == suited + params.jokersPerDeck
        d      == (k \div per) + 1
        o      == k % per
    IN  IF o < suited
        THEN LET suit == params.suits[(o \div Len(params.ranks)) + 1]
                 rank == params.ranks[(o % Len(params.ranks)) + 1]
             IN  [id |-> <<d, suit, rank, k>>, suit |-> suit, rank |-> rank, deckIndex |-> d]
        ELSE [id |-> <<d, "JOKER", 0, k>>, suit |-> "STARS", rank |-> 0, deckIndex |-> d]

\* C24: createDecks yields copies * (suits * ranks + jokers per copy) cards
\* with pairwise distinct ids, ordered by copy, within a copy by suit and
\* within a suit by rank, each copy's jokers (rank 0) after its suited
\* cards; with the default configuration these are 116 cards, 110 that are
\* not jokers and 6 jokers.
C24_CreateDecks ==
    call.fn = "createDecks"
      => LET params == call.params
             deck   == call.result
             per    == Len(params.suits) * Len(params.ranks) + params.jokersPerDeck
             jokers == { k \in 1..Len(deck) : deck[k].rank = 0 }
         IN  /\ Len(deck) = params.decks * per
             /\ \A k \in 1..Len(deck) : deck[k] = CardAt(params, k - 1)
             /\ \A j, k \in 1..Len(deck) : j # k => deck[j].id # deck[k].id
             /\ Cardinality(jokers) = params.decks * params.jokersPerDeck
             /\ params = DefaultDeckConfig
                   => /\ Len(deck) = 116
                      /\ Cardinality(jokers) = 6
                      /\ Cardinality((1..Len(deck)) \ jokers) = 110

\* the default deck has been made: the first copy ends with its third joker
\* at position 58, the second copy starts with the 3 of STARS
C24_Witness ==
    /\ call.fn = "createDecks"
    /\ call.params = DefaultDeckConfig
    /\ Len(call.result) = 116
    /\ call.result[58].rank = 0
    /\ call.result[59].rank = 3
    /\ call.result[59].deckIndex = 2

\* the two sequences hold the same elements the same number of times
SameBag(a, b) ==
    /\ Len(a) = Len(b)
    /\ \A x \in Range(a) \cup Range(b) : CountOf(a, x) = CountOf(b, x)

\* the 0-based index the element at the 0-based index p came from, undoing
\* the swaps of a Fisher-Yates run over n elements from the last one (i = 1)
\* back to the first one (i = n - 1); the swap with index i uses the rng
\* call number n - i
RECURSIVE Origin(_, _, _, _)
Origin(p, i, n, rs) ==
    IF i > n - 1 THEN p
    ELSE LET j == (rs[n - i] * (i + 1)) \div RngDenom
         IN  Origin(IF p = i THEN j ELSE IF p = j THEN i ELSE p, i + 1, n, rs)

BitsOf(w) ==
    { i \in 0..15 : (w[2] \div (2^i)) % 2 = 1 }
      \cup { i + 16 : i \in { j \in 0..15 : (w[1] \div (2^j)) % 2 = 1 } }

BitXor(A, B) == (A \ B) \cup (B \ A)

BitShr(A, n) == { i - n : i \in { j \in A : j >= n } }

BitShl(A, n) == { i + n : i \in { j \in A : j + n <= 31 } }

\* the sum modulo 2^32: add without carries, then add the carries
RECURSIVE BitAdd(_, _)
BitAdd(A, B) == IF B = {} THEN A ELSE BitAdd(BitXor(A, B), BitShl(A \cap B, 1))

\* the product modulo 2^32: the sum of A shifted to every one bit of B from i on
RECURSIVE BitMulFrom(_, _, _)
BitMulFrom(A, B, i) ==
    IF i > 31 THEN {}
    ELSE BitAdd(IF i \in B THEN BitShl(A, i) ELSE {}, BitMulFrom(A, B, i + 1))

BitMul(A, B) == BitMulFrom(A, B, 0)

\* the bits of 61
Bits61 == {0, 2, 3, 4, 5}

\* one call on the state T, a 32-bit word: T becomes T + 0x6D2B79F5 modulo
\* 2^32; x is T ^ (T >> 15) times (x | 1) when orOfX, times (T | 1) otherwise;
\* then x ^= x + (x ^ (x >> 7)) * (x | 61), and the value is x ^ (x >> 14)
StatedCall(T, orOfX) ==
    LET t  == BitAdd(T, BitsOf(Increment))
        y  == BitXor(t, BitShr(t, 15))
        x1 == BitMul(y, (IF orOfX THEN y ELSE t) \cup {0})
        x2 == BitXor(x1, BitAdd(x1, BitMul(BitXor(x1, BitShr(x1, 7)), x1 \cup Bits61)))
    IN  [t |-> t, value |-> BitXor(x2, BitShr(x2, 14))]

RECURSIVE StatedRun(_, _, _)
StatedRun(T, k, orOfX) ==
    IF k = 1 THEN StatedCall(T, orOfX)
    ELSE StatedCall(StatedRun(T, k - 1, orOfX).t, orOfX)

C27_OutTriggerOnDiscard ==
    [][ (/\ DiscardStep
         /\ OutBy(state) = Undefined
         /\ Hand(state', state.currentPlayerIndex + 1) = << >>)
          => /\ OutBy(state') = Some(Me(state).id)
             /\ TurnsLeft(state') = Some(NPlayers - 1)
             /\ state'.status = "PLAYING"
             /\ state'.round = state.round
             /\ state'.currentPlayerIndex = (state.currentPlayerIndex + 1) % NPlayers
             /\ state'.turnPhase = "NEED_DRAW" ]_vars

\* the player before the active one has just discarded the last card of the
\* hand and is the one who went out; every other player has a final turn left
C27_Witness ==
    /\ last = "discardSelected"
    /\ state.status = "PLAYING"
    /\ state.turnPhase = "NEED_DRAW"
    /\ TurnsLeft(state) = Some(NPlayers - 1)
    /\ \E i \in 1..NPlayers :
          /\ OutBy(state) = Some(state.players[i].id)
          /\ Hand(state, i) = << >>
          /\ state.currentPlayerIndex = i % NPlayers

\* C28: a committed discard that does not end the round sets
\* currentPlayerIndex to (currentPlayerIndex + 1) mod N and turnPhase to
\* NEED_DRAW; a discard that ends the round leaves currentPlayerIndex as it
\* was.
C28_TurnAdvance ==
    [][ DiscardStep
          => IF state'.status = "PLAYING"
             THEN /\ state'.currentPlayerIndex = (state.currentPlayerIndex + 1) % NPlayers
                  /\ state'.turnPhase = "NEED_DRAW"
             ELSE state'.currentPlayerIndex = state.currentPlayerIndex ]_vars

\* the last player of the table has discarded: the round has ended with that
\* player still the current one
C28_Witness ==
    /\ last = "discardSelected"
    /\ state.status = "ROUND_END"
    /\ state.currentPlayerIndex = NPlayers - 1
    /\ state.currentPlayerIndex > 0

\* the step commits a meld or a lay-off
MeldStep ==
    /\ last' \in {"submitMeld", "layoffToMeld"}
    /\ GameFields(state') # GameFields(state)

\* what a meld or lay-off leaves alone
MeldFrame(s) ==
    << s.turnPhase, s.currentPlayerIndex, s.status, s.round, s.rule, s.drawPile, s.discardPile,
       [i \in 1..Len(s.players) |->
           IF i = s.currentPlayerIndex + 1 THEN << >> ELSE s.players[i].hand],
       [i \in 1..Len(s.players) |-> s.players[i].score],
       s.outTriggeredByPlayerId, s.turnsRemainingAfterOut >>

C30_RecycleDiscardIntoDraw ==
    call.fn = "recycleDiscardIntoDraw"
      => LET d == call.drawPile
             p == call.discardPile
             r == call.result
         IN  /\ (Len(d) > 0 \/ Len(p) <= 1) => (r.drawPile = d /\ r.discardPile = p)
             /\ (Len(d) = 0 /\ Len(p) > 1)
                   => /\ r.discardPile = <<p[Len(p)]>>
                      /\ SameBag(r.drawPile, SubSeq(p, 1, Len(p) - 1))
             /\ SameBag(r.drawPile \o r.discardPile, d \o p)
             /\ Len(r.drawPile) > 0
                   => /\ call.draw.res = "ok"
                      /\ call.draw.state.discardPile = r.discardPile
                      /\ call.draw.state.drawPile = Tail(r.drawPile)
                      /\ Me(call.draw.state).hand = Append(call.hand, Head(r.drawPile))

\* a discard pile of four cards under an empty draw pile was recycled into
\* a draw pile in another order than the discards had, and the draw took
\* its first card
C30_Witness ==
    /\ call.fn = "recycleDiscardIntoDraw"
    /\ Len(call.drawPile) = 0
    /\ Len(call.discardPile) = 4
    /\ call.result.drawPile # SubSeq(call.discardPile, 1, 3)
    /\ call.draw.res = "ok"
    /\ Len(call.draw.state.drawPile) = 2

\* C31: newGame with N >= 2 names returns round 1, PLAYING, NEED_DRAW,
\* currentPlayerIndex 0, no melds, no out-trigger fields, all scores 0 and
\* hands of 3 cards dealt round-robin from the shuffled deck (the c-th card
\* of player p, both counted from 0, is the card at position c * N + p); the
\* other cards are the draw pile, but with startDiscard the first of them
\* is the discard pile; with fewer than 2 names newGame throws.
C31_NewGame ==
    call.fn = "newGame"
      => LET n        == call.playerCount
             g        == call.result
             shuffled == shuffle(createDecks(FiveCrownsCompat), call.rs)
             rest     == SubSeq(shuffled, 3 * n + 1, Len(shuffled))
         IN  IF n < 2 THEN g = Throws
             ELSE /\ g # Throws
                  /\ g.round = 1
                  /\ g.status = "PLAYING"
                  /\ g.turnPhase = "NEED_DRAW"
                  /\ g.currentPlayerIndex = 0
                  /\ g.melds = << >>
                  /\ g.outTriggeredByPlayerId = Undefined
                  /\ g.turnsRemainingAfterOut = Undefined
                  /\ Len(g.players) = n
                  /\ \A p \in 0..(n - 1) :
                        /\ g.players[p + 1].score = 0
                        /\ Len(g.players[p + 1].hand) = 3
                        /\ \A c \in 0..2 :
                              g.players[p + 1].hand[c + 1] = shuffled[c * n + p + 1]
                  /\ IF call.startDiscard
                     THEN g.discardPile = <<rest[1]>> /\ g.drawPile = Tail(rest)
                     ELSE g.discardPile = << >> /\ g.drawPile = rest

\* a game for three players was made without a starting discard
C31_Witness ==
    /\ call.fn = "newGame"
    /\ call.playerCount = 3
    /\ ~call.startDiscard
    /\ call.result # Throws
    /\ Len(call.result.drawPile) = Len(Deck) - 9
    /\ call.result.players[3].hand[1] # call.result.players[1].hand[2]

\* the player at seat i (from 1) has gone out in the round in progress: is
\* the player who triggered the out, or sits after that player among those
\* who have taken their final turn
HasTakenLastTurn(s, i) ==
    /\ OutBy(s) # Undefined
    /\ LET n    == Len(s.players)
           a    == IndexOfPlayer(s, OutBy(s)[1])
           used == (n - 1) - TurnsLeft(s)[1]
       IN  ((i - 1) + n - a) % n <= used

\* C32: while status = PLAYING, in NEED_DISCARD the active player's hand has
\* at least 1 card and a discard of one of its cards is committed; in
\* NEED_DRAW a player whose hand is empty is the player who triggered the
\* out or one who took a final turn after that, so every other player, the
\* active one included, holds at least 1 card.
C32_DiscardAlwaysPossible ==
    state.status = "PLAYING"
      => /\ state.turnPhase = "NEED_DISCARD"
               => /\ Len(Me(state).hand) >= 1
                  /\ \E c \in Range(Me(state).hand) :
                        onDiscardSelected([state EXCEPT !.selectedCardIds = <<c.id>>]).res = "ok"
         /\ state.turnPhase = "NEED_DRAW"
               => /\ \A i \in 1..NPlayers :
                        Hand(state, i) = << >> => HasTakenLastTurn(state, i)
                  /\ Len(Me(state).hand) >= 1

\* the active player has melded down to the one card that is left to discard
C32_Witness ==
    /\ state.status = "PLAYING"
    /\ state.turnPhase = "NEED_DISCARD"
    /\ last = "submitMeld"
    /\ Len(Me(state).hand) = 1
    /\ OutBy(state) # Undefined
    /\ \E i \in 1..NPlayers : Hand(state, i) = << >>

\* the number of cards in the melds on the table
MeldTotal(s) == SumLen([i \in 1..Len(s.melds) |-> s.melds[i].cards])

\* C33: while status = PLAYING, the cards in all hands and melds number
\* N * rule.handSize in NEED_DRAW and one more in NEED_DISCARD; in NEED_DRAW
\* the draw pile and the discard pile together hold the rest of the deck,
\* and a draw from the deck, recycling the discards when needed, finds a
\* card: drawOne does not throw.
C33_CardAccounting ==
    state.status = "PLAYING"
      => LET base == NPlayers * state.rule.handSize
         IN  /\ state.turnPhase = "NEED_DRAW"
                   => /\ HandTotal(state) + MeldTotal(state) = base
                      /\ Len(state.drawPile) + Len(state.discardPile) = Len(Deck) - base
                      /\ \A rs \in RngStreams : onDrawFromDeck(state, rs).res = "ok"
             /\ state.turnPhase = "NEED_DISCARD"
                   => HandTotal(state) + MeldTotal(state) = base + 1

\* four players hold all but two cards of the deck; the draw pile is used up
\* and the next draw has to recycle the two discards
C33_Witness ==
    /\ state.status = "PLAYING"
    /\ state.turnPhase = "NEED_DRAW"
    /\ NPlayers = 4
    /\ Len(state.drawPile) = 0
    /\ Len(state.discardPile) = Len(Deck) - 4 * state.rule.handSize
    /\ Len(state.melds) > 0

\* C34: outTriggeredByPlayerId and turnsRemainingAfterOut are both undefined
\* or both defined; when they are defined the status is PLAYING, the id is
\* that of a player whose hand is empty and who is not the active player,
\* and 1 <= turnsRemainingAfterOut <= N - 1; in ROUND_END and GAME_OVER both
\* are undefined.
C34_OutFieldsConsistent ==
    /\ (OutBy(state) = Undefined) <=> (TurnsLeft(state) = Undefined)
    /\ OutBy(state) # Undefined
          => /\ state.status = "PLAYING"
             /\ TurnsLeft(state)[1] \in 1..(NPlayers - 1)
             /\ \E i \in 1..NPlayers :
                   /\ state.players[i].id = OutBy(state)[1]
                   /\ Hand(state, i) = << >>
                   /\ state.currentPlayerIndex # i - 1
    /\ state.status \in {"ROUND_END", "GAME_OVER"}
          => OutBy(state) = Undefined /\ TurnsLeft(state) = Undefined

\* the last round has ended after an out: the game is over, the hand of the
\* player who went out is empty and the out-trigger fields are cleared
C34_Witness ==
    /\ state.status = "GAME_OVER"
    /\ last = "discardSelected"
    /\ OutBy(state) = Undefined
    /\ TurnsLeft(state) = Undefined
    /\ \E i \in 1..NPlayers : Hand(state, i) = << >>

\* C35: in the discard that ends a round, the hand of the player named by
\* outTriggeredByPlayerId is empty when the round is scored: that player's
\* penalty for the round is 0 and the cumulative score stays as it was.
C35_OutPlayerScoresZero ==
    [][ (/\ DiscardStep
         /\ OutBy(state) # Undefined
         /\ state'.status \in {"ROUND_END", "GAME_OVER"})
          => LET a == IndexOfPlayer(state, OutBy(state)[1]) + 1
             IN  /\ Hand(state', a) = << >>
                 /\ scoreHand(Ranks(Hand(state', a)), state.rule) = 0
                 /\ state'.players[a].score = state.players[a].score
                 /\ \A i \in 1..NPlayers :
                       Len(Hand(state', i)) > 0
                          => state'.players[i].score > state.players[i].score ]_vars

\* the last round has ended: the player who went out in it has the score
\* brought from the round before, above 0, the other player's score has grown
C35_Witness ==
    /\ state.status = "GAME_OVER"
    /\ last = "discardSelected"
    /\ \E i \in 1..NPlayers :
          /\ Hand(state, i) = << >>
          /\ state.players[i].score > 0
          /\ \E j \in 1..NPlayers :
                Len(Hand(state, j)) > 0 /\ state.players[j].score > state.players[i].score

\* C36: the discard that ends a round is made by the player seated
\* immediately before the player who went out and leaves currentPlayerIndex
\* as it is, and so do endRound and nextRound: the first player of the next
\* round is the player who made the last discard of the round before.
C36_FirstPlayerOfNextRound ==
    [][ /\ (DiscardStep /\ state'.status \in {"ROUND_END", "GAME_OVER"})
             => /\ state'.currentPlayerIndex = state.currentPlayerIndex
                /\ state.currentPlayerIndex
                      = (IndexOfPlayer(state, OutBy(state)[1]) + NPlayers - 1) % NPlayers
        /\ endRound(state).currentPlayerIndex = state.currentPlayerIndex
        /\ NextRoundStep
             => /\ state'.currentPlayerIndex = state.currentPlayerIndex
                /\ state'.status = "PLAYING" => state'.turnPhase = "NEED_DRAW" ]_vars

\* round 2 has been dealt and its first turn is with the second player, who
\* made the last discard of round 1
C36_Witness ==
    /\ last = "nextRound"
    /\ state.round = 2
    /\ state.status = "PLAYING"
    /\ state.turnPhase = "NEED_DRAW"
    /\ turns = 0
    /\ state.currentPlayerIndex = 1

\* C37: for every card the active player can discard, the earlier
\* onDiscardSelected with its inline transition and the onDiscardSelected
\* that calls afterDiscard give the same outTriggeredByPlayerId,
\* turnsRemainingAfterOut, status, scores, currentPlayerIndex and turnPhase
\* (and hands, piles and melds).
C37_DiscardTransitionsAgree ==
    canDiscard(state)
      => \A c \in Range(Me(state).hand) :
            LET s == [state EXCEPT !.selectedCardIds = <<c.id>>]
            IN  /\ onDiscardSelectedInline(s).res = onDiscardSelected(s).res
                /\ GameFields(onDiscardSelectedInline(s).state)
                      = GameFields(onDiscardSelected(s).state)

\* C38: once a player is out and the players keep drawing and discarding,
\* the round ends in ROUND_END or GAME_OVER; the out leaves N - 1 final
\* turns, every further committed discard takes one of them, and the one
\* that takes the last ends the round: the round ends after exactly N - 1
\* further discards.
C38_RoundEndsAfterOut ==
    /\ (OutBy(state) # Undefined) ~> (state.status \in {"ROUND_END", "GAME_OVER"})
    /\ [][ DiscardStep
             => IF OutBy(state) = Undefined
                THEN OutBy(state') # Undefined => TurnsLeft(state') = Some(NPlayers - 1)
                ELSE IF TurnsLeft(state) = Some(1)
                     THEN state'.status \in {"ROUND_END", "GAME_OVER"}
                     ELSE /\ state'.status = "PLAYING"
                          /\ TurnsLeft(state') = Some(TurnsLeft(state)[1] - 1) ]_vars

\* of three players the second went out at the second discard; the two
\* final turns have been taken and the round has ended at the fourth
C38_Witness ==
    /\ NPlayers = 3
    /\ state.status = "ROUND_END"
    /\ last = "discardSelected"
    /\ turns = 4
    /\ Hand(state, 2) = << >>
    /\ Len(Hand(state, 1)) > 0

\* C39: in every reachable state the melds on the table have pairwise
\* distinct ids.
C39_MeldIdsUnique ==
    \A i, j \in 1..Len(state.melds) :
        i # j => state.melds[i].id # state.melds[j].id

\* C40: the phase guard of a request holds for the state its update is
\* applied to: a draw is applied in NEED_DRAW only, a meld, a lay-off and a
\* discard in NEED_DISCARD only, also when the request was issued against a
\* render that is no longer the latest state; so two draw requests issued
\* against one render add one card.
C40_GuardsHoldAtUpdate ==
    [][ state' # state
          => /\ last' \in {"drawFromDeck", "recycleAndDraw", "drawFromDiscard"} => canDraw(state)
             /\ last' \in {"submitMeld", "layoffToMeld"} => canMeld(state)
             /\ last' = "discardSelected" => canDiscard(state) ]_vars
====
